---- MODULE Spec2Model ----
(***************************************************************************)
(* Model of the calorie-tracking controller of slimpath-server             *)
(* (src/controllers/trackingController.js, lines 1-590) over the Tracking  *)
(* collection declared in src/models/trackingModel.js (lines 1-157).       *)
(*                                                                         *)
(* Numbers.  JavaScript numbers are modelled by exact rational arithmetic  *)
(* on integers: a converted weight or height is carried in units of 1e-5   *)
(* (the conversion factors 2.20462 and 3.28084 have five decimals), and    *)
(* Math.round(x) is floor(x + 1/2).  Raw request values are integers.      *)
(* Binary floating point rounding of the intermediate products is not      *)
(* modelled.                                                               *)
(*                                                                         *)
(* Time.  Dates are whole days since the start of the model.               *)
(***************************************************************************)
EXTENDS Integers, Sequences, FiniteSets, TLC

(***************************************************************************)
(* Bounds of the model.                                                    *)
(***************************************************************************)
MaxRecords == 2      \* tracking records ever created
MaxNotes == 2        \* updateTracking is not started on a record with this many notes
MaxDay == 8          \* the clock stops here
DayStep == 4         \* days that pass in one step of the clock

(***************************************************************************)
(* JavaScript values that are not finite numbers.                          *)
(***************************************************************************)
Undefined == -1000000
NaN == -1000001
NegInfinity == -1000002
UndefinedStr == "undefined"
Null == -1000003
NullStr == "null"

IsNumber(x) == x \notin {Undefined, NaN, NegInfinity, Null}

Abs(x) == IF x < 0 THEN -x ELSE x

Min(a, b) == IF a < b THEN a ELSE b

Max(a, b) == IF a > b THEN a ELSE b

\* Math.round of the rational num/den (den > 0): floor(num/den + 1/2).
Round(num, den) == (2 * num + den) \div (2 * den)

\* <<(a*b) div d, (a*b) mod d>> for a, b >= 0 and d > 0, computed on the
\* base-16 digits of b so that no intermediate value leaves the 32-bit range
\* of the integers of TLC (a and d are below 2^27 here).
RECURSIVE MulDivMod(_, _, _)
MulDivMod(a, b, d) ==
    IF b = 0 THEN <<0, 0>>
    ELSE LET h == MulDivMod(a, b \div 16, d)
             low == (b % 16) * a
             r == 16 * h[2] + (low % d)
         IN  <<16 * h[1] + (low \div d) + (r \div d), r % d>>

(***************************************************************************)
(* convertUnits: the result is in units of 1e-5 (pounds or feet).          *)
(***************************************************************************)
Scale == 100000

\* The conversion with the limits 100 and 10 themselves converted.
convertUnitsInclusive(value, type) ==
    CASE type = "weight" -> IF value <= 100 THEN value * 220462 ELSE value * Scale
      [] type = "height" -> IF value <= 10 THEN value * 328084 ELSE value * Scale
      [] OTHER -> value * Scale

\* undefined < 100 is false, so undefined is returned as it is; null < 100
\* is true and null * 2.20462 is 0.
convertUnits(value, type) ==
    IF value = Undefined THEN Undefined
    ELSE IF value = Null THEN (IF type \in {"weight", "height"} THEN 0 ELSE Null)
    ELSE CASE type = "weight" -> IF value < 100 THEN value * 220462 ELSE value * Scale
           [] type = "height" -> IF value < 10 THEN value * 328084 ELSE value * Scale
           [] OTHER -> value * Scale

(***************************************************************************)
(* validateAnalysisParams: "ok" or the message of the Error thrown.        *)
(* It is given the converted weights and height.  age is not in the list   *)
(* of required parameters.                                                 *)
(***************************************************************************)
validActivityLevels ==
    {"sedentary", "lightlyActive", "moderatelyActive", "veryActive", "extraActive"}

validateAnalysisParams(params) ==
    IF params.currentWeight \in {Undefined, Null}
    THEN "Missing required parameter: currentWeight"
    ELSE IF params.goalWeight \in {Undefined, Null}
    THEN "Missing required parameter: goalWeight"
    ELSE IF params.durationWeeks \in {Undefined, Null}
    THEN "Missing required parameter: durationWeeks"
    ELSE IF params.height \in {Undefined, Null}
    THEN "Missing required parameter: height"
    ELSE IF params.activityLevel \in {UndefinedStr, NullStr}
    THEN "Missing required parameter: activityLevel"
    ELSE IF params.activityLevel \notin validActivityLevels THEN "Invalid activity level"
    ELSE IF params.currentWeight <= 0 THEN "Current weight must be a positive number"
    ELSE IF params.height <= 0 THEN "Height must be a positive number"
    ELSE "ok"

\* activityMultipliers, times 40: 1.2, 1.375, 1.55, 1.725, 1.9.
activityMultipliers(activityLevel) ==
    CASE activityLevel = "sedentary" -> 48
      [] activityLevel = "lightlyActive" -> 55
      [] activityLevel = "moderatelyActive" -> 62
      [] activityLevel = "veryActive" -> 69
      [] activityLevel = "extraActive" -> 76

\* distributionFactors, times 20: morning, afternoon, night.
distributionFactors(activityLevel) ==
    CASE activityLevel = "sedentary" -> <<5, 7, 8>>
      [] activityLevel = "lightlyActive" -> <<6, 8, 6>>
      [] activityLevel = "moderatelyActive" -> <<7, 8, 5>>
      [] activityLevel = "veryActive" -> <<8, 7, 5>>
      [] activityLevel = "extraActive" -> <<8, 6, 6>>

\* Math.round(dailyCalories * factor), factor given times 20.
SlotCalories(dailyCalories, factor20) ==
    IF IsNumber(dailyCalories) THEN Round(dailyCalories * factor20, 20) ELSE NaN

\* The table factors in both modes.
calculateMealDistributionByTable(dailyCalories, activityLevel, isUpdate) ==
    LET f == distributionFactors(activityLevel)
    IN  [morning |-> SlotCalories(dailyCalories, f[1]),
         afternoon |-> SlotCalories(dailyCalories, f[2]),
         night |-> SlotCalories(dailyCalories, f[3]),
         total |-> dailyCalories]

\* The fixed description and recommendedMeals of each slot are left out.
calculateOptimalMealDistribution(dailyCalories, activityLevel, isUpdate) ==
    LET f == distributionFactors(activityLevel)
        adjustedMorningFactor == IF isUpdate THEN Min(f[1], 5) ELSE f[1]
    IN  [morning |-> SlotCalories(dailyCalories, adjustedMorningFactor),
         afternoon |-> SlotCalories(dailyCalories, f[2]),
         night |-> SlotCalories(dailyCalories, f[3]),
         total |-> dailyCalories]

\* A mealDistribution that was never set.
NoMealDistribution ==
    [morning |-> Undefined, afternoon |-> Undefined, night |-> Undefined,
     total |-> Undefined]

\* Math.round(convertedHeight * 12).
heightInInches(convertedHeight) == Round(convertedHeight * 12, Scale)

(***************************************************************************)
(* dailyCalories = Math.round(TDEE - dailyDeficit), where                  *)
(*   TDEE = (10*w*0.453592 + 6.25*hin*2.54 - 5*age + 5) * multiplier       *)
(*   dailyDeficit = max((w - g)*3500 / (durationWeeks*7), 0)               *)
(* and w, g are the converted weights in pounds.  With w5, g5 in units of  *)
(* 1e-5 and M = 40*multiplier, (TDEE - dailyDeficit + 1/2) * 1600 * dw is   *)
(*   M*dw*56699*w5/31250000 + 635*M*hin*dw + 200*M*(1-age)*dw              *)
(*   - 8*max(w5-g5,0) + 800*dw.                                            *)
(* A missing age makes the BMR NaN, a null age counts as 0;                *)
(* durationWeeks = 0 divides by zero.                                      *)
(***************************************************************************)
\* floor((TDEE - deficit + 1/2)) with every term scaled by 1600*k; deficit8 is
\* the deficit times 1600*k.
RoundedTarget(M, w5, hin, age, k, deficit8) ==
    (MulDivMod(M * k * 56699, w5, 31250000)[1] + 635 * M * hin * k
     + 200 * M * (1 - age) * k - deficit8 + 800 * k) \div (1600 * k)

\* The difference of the weights taken as it is, without the lower bound 0.
DailyCaloriesUnbounded(w5, g5, durationWeeks, age, hin, activityLevel) ==
    IF age = Undefined THEN NaN
    ELSE RoundedTarget(activityMultipliers(activityLevel), w5, hin,
                       IF age = Null THEN 0 ELSE age, Max(durationWeeks, 1),
                       8 * (w5 - g5))

DailyCalories(w5, g5, durationWeeks, age, hin, activityLevel) ==
    LET M == activityMultipliers(activityLevel)
        weightDelta == w5 - g5
        years == IF age = Null THEN 0 ELSE age
    IN  IF age = Undefined THEN NaN
        ELSE IF durationWeeks = 0
        THEN (IF weightDelta > 0 THEN NegInfinity
              ELSE IF weightDelta = 0 THEN NaN
              ELSE RoundedTarget(M, w5, hin, years, 1, 0))
        ELSE RoundedTarget(M, w5, hin, years, durationWeeks, 8 * Max(weightDelta, 0))

(***************************************************************************)
(* Progress notes.  The text of a note is kept by its parts: the initial   *)
(* note "Initial tracking started. Goal: <goal.toFixed(1)> lbs over        *)
(* <durationWeeks> weeks" and the update note "Weight updated to <weight>  *)
(* <kg|lbs>".  number is the first number of the text, in tenths.          *)
(***************************************************************************)
InitialNote(convertedGoalWeight, durationWeeks, date) ==
    [kind |-> "Initial tracking started",
     number |-> Round(convertedGoalWeight, Scale \div 10),
     unit |-> "lbs", weeks |-> durationWeeks, date |-> date]

UpdateNote(updatedWeight, currentWeight, date) ==
    [kind |-> "Weight updated",
     number |-> updatedWeight * 10,
     unit |-> IF currentWeight < 100 THEN "kg" ELSE "lbs",
     weeks |-> Undefined, date |-> date]

\* parseFloat(note.note.match(/\d+(\.\d+)?/)[0]): the pattern skips a sign.
NoteWeight(note) == Abs(note.number)

(***************************************************************************)
(* getIntelligentAnalysis.  error is "ok" or the message of the Error that *)
(* validateAnalysisParams throws.                                          *)
(***************************************************************************)
getIntelligentAnalysis(params, date) ==
    LET convertedCurrentWeight == convertUnits(params.currentWeight, "weight")
        convertedGoalWeight == convertUnits(params.goalWeight, "weight")
        convertedHeight == convertUnits(params.height, "height")
        error == validateAnalysisParams(
                     [params EXCEPT !.currentWeight = convertedCurrentWeight,
                                    !.goalWeight = convertedGoalWeight,
                                    !.height = convertedHeight])
        dailyCalories == DailyCalories(convertedCurrentWeight, convertedGoalWeight,
                                       params.durationWeeks, params.age,
                                       heightInInches(convertedHeight),
                                       params.activityLevel)
    IN  IF error # "ok"
        THEN [error |-> error, dailyCalories |-> Undefined,
              mealDistribution |-> NoMealDistribution, progressNotes |-> <<>>]
        ELSE [error |-> "ok",
              dailyCalories |-> dailyCalories,
              mealDistribution |->
                  calculateOptimalMealDistribution(dailyCalories,
                                                   params.activityLevel, FALSE),
              progressNotes |->
                  <<InitialNote(convertedGoalWeight, params.durationWeeks, date)>>]

(***************************************************************************)
(* calculateCalorieAdjustment: progressPercentage = currentWeek/totalWeeks *)
(* * 100 against 25, 50 and 75.                                            *)
(***************************************************************************)
\* The steps with the limits 25, 50 and 75 counted to the lower step.
calculateCalorieAdjustmentInclusive(currentWeek, totalWeeks) ==
    IF currentWeek * 100 <= 25 * totalWeeks THEN 50
    ELSE IF currentWeek * 100 <= 50 * totalWeeks THEN 25
    ELSE IF currentWeek * 100 <= 75 * totalWeeks THEN -25
    ELSE -50

calculateCalorieAdjustment(currentWeek, totalWeeks) ==
    IF currentWeek * 100 < 25 * totalWeeks THEN 50
    ELSE IF currentWeek * 100 < 50 * totalWeeks THEN 25
    ELSE IF currentWeek * 100 < 75 * totalWeeks THEN -25
    ELSE -50

CurrentWeek(startDate, currentDate) == ((currentDate - startDate) \div 7) + 1

\* A projection that goes on after the last week of the plan.
generateProgressProjectionUnbounded(trackingData, lastUpdateDate, currentDate) ==
    <<[week |-> CurrentWeek(lastUpdateDate, currentDate),
       currentWeight |-> trackingData.currentWeight,
       predictedDate |-> lastUpdateDate + CurrentWeek(lastUpdateDate, currentDate) * 7,
       dailyCalories |-> trackingData.dailyCalories,
       calorieAdjustment |->
           calculateCalorieAdjustment(CurrentWeek(lastUpdateDate, currentDate),
                                      trackingData.durationWeeks)]>>

\* generateProgressProjection with trackingData given (every caller gives it).
generateProgressProjection(trackingData, lastUpdateDate, currentDate) ==
    LET startDate == lastUpdateDate
        currentWeek == CurrentWeek(startDate, currentDate)
    IN  IF currentWeek > trackingData.durationWeeks
        THEN <<>>
        ELSE <<[week |-> currentWeek,
                currentWeight |-> trackingData.currentWeight,
                predictedDate |-> startDate + currentWeek * 7,
                dailyCalories |-> trackingData.dailyCalories,
                calorieAdjustment |->
                    calculateCalorieAdjustment(currentWeek, trackingData.durationWeeks)]>>

(***************************************************************************)
(* generateRecommendations.                                                *)
(***************************************************************************)
generateRecommendations(tracking) ==
    LET weightLeft == tracking.currentWeight - tracking.goalWeight
    IN  IF Len(tracking.weeklyProgress) = 0
        THEN [message |-> "No progress data available to generate recommendations.",
              bestDays |-> <<>>, sleepCorrelation |-> UndefinedStr,
              focusAreas |-> UndefinedStr]
        ELSE [message |-> UndefinedStr,
              bestDays |-> IF weightLeft > 5 THEN <<"Monday", "Wednesday", "Friday">>
                           ELSE <<"Tuesday", "Thursday">>,
              sleepCorrelation |-> IF weightLeft < 2 THEN "Positive" ELSE "Negative",
              focusAreas |-> IF weightLeft > 5 THEN "Increase physical activity"
                             ELSE "Maintain consistency"]

\* The recommendations path of the schema has bestDays, sleepCorrelation and
\* focusAreas: a message assigned to it is not kept (strict schema).
SchemaRecommendations(recommendations) ==
    [bestDays |-> recommendations.bestDays,
     sleepCorrelation |-> recommendations.sleepCorrelation,
     focusAreas |-> recommendations.focusAreas]

(***************************************************************************)
(* detectProgressPatterns.  The week-over-week changes are integers c_i;   *)
(* with n changes and S their sum, the average is S/n, the mean absolute   *)
(* deviation is Sum|n*c_i - S| / n^2 and the variance is                   *)
(* Sum (n*c_i - S)^2 / n^3.                                                *)
(***************************************************************************)
RECURSIVE SumSeq(_)
SumSeq(s) == IF Len(s) = 0 THEN 0 ELSE Head(s) + SumSeq(Tail(s))

CountIn(s, P(_)) == Cardinality({i \in 1..Len(s) : P(s[i])})

\* The score without its lower bound 0.
calculateConsistencyScoreUnbounded(changes, avgNum, avgDen) ==
    LET n == Len(changes)
        deviations == [i \in 1..n |-> Abs(changes[i] * avgDen - avgNum)]
    IN  IF n = 0 THEN NaN
        ELSE Round(100 * n * avgDen - 20 * SumSeq(deviations), n * avgDen)

calculateConsistencyScore(changes, avgNum, avgDen) ==
    LET n == Len(changes)
        deviations == [i \in 1..n |-> Abs(changes[i] * avgDen - avgNum)]
    IN  IF n = 0 THEN NaN
        ELSE Round(Max(0, 100 * n * avgDen - 20 * SumSeq(deviations)), n * avgDen)

\* Math.round(Math.min(100, standardDeviation * 10)): the k in 0..100 with
\* (k - 1/2)^2 <= 100 * variance < (k + 1/2)^2, or 100.
calculateVolatility(changes) ==
    LET n == Len(changes)
        S == SumSeq(changes)
        V == SumSeq([i \in 1..n |-> (n * changes[i] - S) * (n * changes[i] - S)])
    IN  IF n < 2 THEN 0
        ELSE CHOOSE k \in 0..100 :
                 /\ (k = 0 \/ (2 * k - 1) * (2 * k - 1) * n * n * n <= 400 * V)
                 /\ (k = 100 \/ 400 * V < (2 * k + 1) * (2 * k + 1) * n * n * n)

InsufficientData ==
    [overallTrend |-> "Insufficient data", patternType |-> "N/A",
     consistencyScore |-> 0, volatility |-> Undefined,
     averageWeeklyChange |-> [num |-> Undefined, den |-> 1],
     trendDetails |-> [positiveChanges |-> Undefined, negativeChanges |-> Undefined,
                       neutralChanges |-> Undefined]]

\* A progressPatterns that was never set.
NoPatterns ==
    [overallTrend |-> UndefinedStr, patternType |-> UndefinedStr,
     consistencyScore |-> Undefined, volatility |-> Undefined,
     averageWeeklyChange |-> [num |-> Undefined, den |-> 1],
     trendDetails |-> [positiveChanges |-> Undefined, negativeChanges |-> Undefined,
                       neutralChanges |-> Undefined]]

\* A classification in which a tie for the largest count goes to the first
\* of the tied kinds.
detectProgressPatternsTiesFirst(weeklyProgress) ==
    IF Len(weeklyProgress) < 3 THEN InsufficientData
    ELSE
      LET weights == [i \in 1..Len(weeklyProgress) |-> weeklyProgress[i].currentWeight]
          weightChanges == [i \in 1..(Len(weights) - 1) |-> weights[i + 1] - weights[i]]
          positive == CountIn(weightChanges, LAMBDA c : c > 0)
          negative == CountIn(weightChanges, LAMBDA c : c < 0)
          neutral == CountIn(weightChanges, LAMBDA c : c = 0)
          patternType ==
              IF positive >= negative /\ positive >= neutral THEN "Gradual Gain"
              ELSE IF negative >= neutral THEN "Steady Decline"
              ELSE "Stable"
      IN  [overallTrend |-> patternType, patternType |-> patternType,
           consistencyScore |->
               calculateConsistencyScore(weightChanges, SumSeq(weightChanges),
                                         Len(weightChanges)),
           volatility |-> calculateVolatility(weightChanges),
           averageWeeklyChange |-> [num |-> SumSeq(weightChanges),
                                    den |-> Len(weightChanges)],
           trendDetails |-> [positiveChanges |-> positive, negativeChanges |-> negative,
                             neutralChanges |-> neutral]]

detectProgressPatterns(weeklyProgress) ==
    IF Len(weeklyProgress) < 3 THEN InsufficientData
    ELSE
      LET weights == [i \in 1..Len(weeklyProgress) |-> weeklyProgress[i].currentWeight]
          weightChanges == [i \in 1..(Len(weights) - 1) |-> weights[i + 1] - weights[i]]
          positive == CountIn(weightChanges, LAMBDA c : c > 0)
          negative == CountIn(weightChanges, LAMBDA c : c < 0)
          neutral == CountIn(weightChanges, LAMBDA c : c = 0)
          patternType ==
              IF positive > negative /\ positive > neutral THEN "Gradual Gain"
              ELSE IF negative > positive /\ negative > neutral THEN "Steady Decline"
              ELSE IF neutral > positive /\ neutral > negative THEN "Stable"
              ELSE "Inconsistent"
      IN  [overallTrend |-> patternType, patternType |-> patternType,
           consistencyScore |->
               calculateConsistencyScore(weightChanges, SumSeq(weightChanges),
                                         Len(weightChanges)),
           volatility |-> calculateVolatility(weightChanges),
           averageWeeklyChange |-> [num |-> SumSeq(weightChanges),
                                    den |-> Len(weightChanges)],
           trendDetails |-> [positiveChanges |-> positive, negativeChanges |-> negative,
                             neutralChanges |-> neutral]]

(***************************************************************************)
(* generateChartData.  predicted = goalWeight + (currentWeight -           *)
(* goalWeight) * (1 - week/durationWeeks) is kept as the fraction num/den. *)
(***************************************************************************)
generateChartData(tracking) ==
    [weightProgress |->
         [i \in 1..Len(tracking.progressNotes) |->
             [date |-> tracking.progressNotes[i].date,
              weight |-> NoteWeight(tracking.progressNotes[i]),
              isActual |-> TRUE]],
     calorieDistribution |->
         <<tracking.mealDistribution.morning, tracking.mealDistribution.afternoon,
           tracking.mealDistribution.night>>,
     progressTrend |->
         [i \in 1..Len(tracking.weeklyProgress) |->
             LET week == tracking.weeklyProgress[i]
             IN  [week |-> week.week,
                  actual |-> week.currentWeight,
                  predicted |->
                      [num |-> tracking.goalWeight * tracking.durationWeeks
                               + (tracking.currentWeight - tracking.goalWeight)
                                 * (tracking.durationWeeks - week.week),
                       den |-> tracking.durationWeeks]]]]

\* A chartData that was never set: the arrays of the schema, empty.
NoChartData == [weightProgress |-> <<>>, calorieDistribution |-> <<>>, progressTrend |-> <<>>]

(***************************************************************************)
(* calculateAdherenceMetrics and calculateStreak.  A weekly score is kept  *)
(* as the fraction num/den: max(0, 100 - |expected - actual| * 10) with    *)
(* expected = initial - (initial - goal)/durationWeeks * week.             *)
(***************************************************************************)
AdherenceScore(tracking, week) ==
    LET dw == tracking.durationWeeks
        difference == Abs(tracking.currentWeight * dw
                          - (tracking.currentWeight - tracking.goalWeight) * week.week
                          - week.currentWeight * dw)
    IN  [num |-> Max(0, 100 * dw - difference * 10), den |-> dw]

RECURSIVE StreakFrom(_, _, _)
StreakFrom(adherenceScores, currentStreak, bestStreak) ==
    IF Len(adherenceScores) = 0 THEN [current |-> currentStreak, best |-> bestStreak]
    ELSE LET score == Head(adherenceScores)
         IN  IF score.num >= 80 * score.den
             THEN StreakFrom(Tail(adherenceScores), currentStreak + 1,
                             Max(bestStreak, currentStreak + 1))
             ELSE StreakFrom(Tail(adherenceScores), 0, bestStreak)

\* The streak whose best run is never raised.
calculateStreakWithoutBest(adherenceScores) ==
    [current |-> StreakFrom(adherenceScores, 0, 0).current, best |-> 0]

calculateStreak(adherenceScores) == StreakFrom(adherenceScores, 0, 0)

calculateAdherenceMetrics(tracking, weeklyProgress) ==
    LET adherenceScores ==
            [i \in 1..Len(weeklyProgress) |-> AdherenceScore(tracking, weeklyProgress[i])]
        n == Len(adherenceScores)
        weights == [i \in 1..Len(weeklyProgress) |-> weeklyProgress[i].currentWeight]
    IN  [overallAdherence |->
             IF n = 0 THEN NaN
             ELSE Round(SumSeq([i \in 1..n |-> adherenceScores[i].num]),
                        n * tracking.durationWeeks),
         weeklyAdherence |-> adherenceScores,
         streak |-> calculateStreak(adherenceScores),
         consistencyScore |->
             calculateConsistencyScore(weights,
                 IF n > 0 THEN weights[1] ELSE tracking.currentWeight, 1)]

(***************************************************************************)
(* The Tracking schema.  validateTracking is the validation that           *)
(* Tracking.create and document.save run before they write: "ok" or the    *)
(* error.  It runs before the pre-save hook.                               *)
(***************************************************************************)
\* The schema without the minimum of dailyCalories.
validateTrackingNoMinimum(doc) ==
    IF doc.activityLevel \notin validActivityLevels
    THEN "activityLevel is not a valid enum value"
    ELSE IF doc.dailyCalories = NaN THEN "Cast to Number failed for path dailyCalories"
    ELSE IF doc.durationWeeks < 1 THEN "Duration must be at least 1 week"
    ELSE "ok"

validateTracking(doc) ==
    IF \E f \in {doc.currentWeight, doc.age, doc.height, doc.goalWeight,
                 doc.durationWeeks} : f \in {Undefined, Null}
    THEN "Path is required"
    ELSE IF doc.activityLevel \in {UndefinedStr, NullStr}
    THEN "Path activityLevel is required"
    ELSE IF doc.activityLevel \notin validActivityLevels
    THEN "activityLevel is not a valid enum value"
    ELSE IF doc.dailyCalories = NaN THEN "Cast to Number failed for path dailyCalories"
    ELSE IF doc.currentWeight < 0 THEN "Weight cannot be negative"
    ELSE IF doc.age < 0 THEN "Age cannot be negative"
    ELSE IF doc.height < 0 THEN "Height cannot be negative"
    ELSE IF doc.goalWeight < 0 THEN "Goal weight cannot be negative"
    ELSE IF doc.durationWeeks < 1 THEN "Duration must be at least 1 week"
    ELSE IF doc.dailyCalories # Undefined
            /\ (doc.dailyCalories = NegInfinity \/ doc.dailyCalories < 0)
    THEN "Calories cannot be negative"
    ELSE IF \E i \in 1..Len(doc.weeklyProgress) :
                \/ doc.weeklyProgress[i].week < 0
                \/ doc.weeklyProgress[i].currentWeight < 0
    THEN "Week number or weight cannot be negative"
    ELSE "ok"

(***************************************************************************)
(* The users and the requests of the model.  The User schema               *)
(* (src/unnamed/part_002) has no height, age or activityLevel path, so     *)
(* user.height, user.age and user.activityLevel are undefined.             *)
(***************************************************************************)
KnownUsers == {1, 2}

UserIds == KnownUsers \cup {3}

Procs == {1, 2}

Body(cw, gw, dw, age, h, level) ==
    [currentWeight |-> cw, goalWeight |-> gw, durationWeeks |-> dw, age |-> age,
     height |-> h, activityLevel |-> level]

\* The bodies of the initializeTracking requests: a plan in pounds, a plan
\* whose loss is large for its duration, a plan in kilograms whose goal is
\* above the current weight, and an unknown activity level.
InitBodies ==
    {Body(180, 160, 8, 30, 70, "moderatelyActive"),
     Body(300, 100, 1, 30, 2, "sedentary"),
     Body(70, 80, 1, 40, 2, "lightlyActive"),
     Body(180, 160, 8, 30, 70, "couch")}

UpdatedWeights == {0, 90, 170}

BodyHeights == {Undefined, 70}

userHeight == Undefined

userAge == Undefined

userActivityLevel == UndefinedStr

VARIABLES
    store,      \* the Tracking collection: the documents in creation order
    now,        \* the clock, in days
    pending,    \* per request slot: the updateTracking call waiting on save()
    resp,       \* the last response sent
    users,      \* the User collection: the documents in creation order
    issued      \* the tokens drawn from crypto.randomBytes so far

vars == <<store, now, pending, resp, users, issued>>

Idle == [pc |-> "idle", user |-> 0, id |-> 0, loaded |-> <<>>, tracking |-> <<>>]

\* A response: the status, the error and details of an error body, the
\* documents of a success body.
Response(op, user, status, error, details, body) ==
    [op |-> op, user |-> user, status |-> status, error |-> error,
     details |-> details, body |-> body]

Init ==
    /\ store = <<>>
    /\ now = 0
    /\ pending = [p \in Procs |-> Idle]
    /\ resp = [op |-> "none", user |-> 0, status |-> 0, error |-> "",
               details |-> "", body |-> <<>>]
    /\ users = <<>>
    /\ issued = 0

\* A query that leaves out the filter on the user.
RecordsOfAnyUser(userId) == 1..Len(store)

\* The ids of the documents of a user, and Tracking.findOne({user}).sort({createdAt: -1}):
\* the id of the latest, 0 when there is none.
RecordsOf(userId) == {i \in 1..Len(store) : store[i].user = userId}

\* A query sorted by createdAt ascending: the oldest document of the user.
FindOldest(userId) ==
    IF RecordsOf(userId) = {} THEN 0
    ELSE CHOOSE i \in RecordsOf(userId) : \A j \in RecordsOf(userId) : i <= j

FindLatest(userId) ==
    IF RecordsOf(userId) = {} THEN 0
    ELSE CHOOSE i \in RecordsOf(userId) : \A j \in RecordsOf(userId) : j <= i

\* if (x) of JavaScript, for a number and for a string.
Truthy(x) == x \notin {Undefined, Null, NaN, 0}

TruthyStr(x) == x \notin {UndefinedStr, NullStr, ""}

\* The recommendations of a document that never had them set.
NoRecommendations ==
    [bestDays |-> <<>>, sleepCorrelation |-> UndefinedStr, focusAreas |-> UndefinedStr]

(***************************************************************************)
(* The virtual calculateProgressPercentage and the pre-save hook.  The      *)
(* percentage is a fraction num/den, 0 being 0/1 and 100 being 100/1.       *)
(* With currentWeight equal to goalWeight the division is by zero: 0/0 is   *)
(* NaN and Math.min(NaN, 100) is NaN; a positive number over zero is        *)
(* Infinity, of which Math.min takes 100.                                   *)
(***************************************************************************)
calculateProgressPercentage(tracking) ==
    IF Truthy(tracking.currentWeight) /\ Truthy(tracking.goalWeight)
    THEN LET totalWeightDifference == Abs(tracking.currentWeight - tracking.goalWeight)
             n == Len(tracking.weeklyProgress)
             last == IF n > 0 /\ Truthy(tracking.weeklyProgress[n].currentWeight)
                     THEN tracking.weeklyProgress[n].currentWeight
                     ELSE tracking.currentWeight
             progressMade == Abs(tracking.currentWeight - last)
         IN  IF totalWeightDifference = 0
             THEN IF progressMade = 0 THEN [num |-> NaN, den |-> 1]
                  ELSE [num |-> 100, den |-> 1]
             ELSE IF progressMade = 0 THEN [num |-> 0, den |-> 1]
             ELSE IF progressMade >= totalWeightDifference THEN [num |-> 100, den |-> 1]
             ELSE [num |-> progressMade * 100, den |-> totalWeightDifference]
    ELSE [num |-> 0, den |-> 1]

\* The default of the path progressPercentage.
DefaultProgressPercentage == [num |-> 0, den |-> 1]

(***************************************************************************)
(* pre('save'): this.progressPercentage = this.calculateProgressPercentage. *)
(* The hook runs after the validation of the document, so min and max of    *)
(* the path are not applied to what it assigns.  The cast of NaN to Number  *)
(* fails and the assignment is dropped: the path keeps the value it had.    *)
(***************************************************************************)
preSave(progressPercentage, tracking) ==
    IF calculateProgressPercentage(tracking).num = NaN
    THEN progressPercentage
    ELSE calculateProgressPercentage(tracking)

(***************************************************************************)
(* initializeTracking.  The document given to Tracking.create: the weights *)
(* and the height are those of the request body (the analysis has no such  *)
(* top-level keys), the paths the schema does not declare are dropped.     *)
(***************************************************************************)
NewTracking(userId, body, analysis) ==
    [user |-> userId,
     currentWeight |-> body.currentWeight,
     goalWeight |-> body.goalWeight,
     durationWeeks |-> body.durationWeeks,
     age |-> body.age,
     height |-> body.height,
     activityLevel |-> body.activityLevel,
     dailyCalories |-> analysis.dailyCalories,
     mealDistribution |-> analysis.mealDistribution,
     weeklyProgress |-> <<>>,
     recommendations |-> NoRecommendations,
     progressNotes |-> analysis.progressNotes,
     progressPatterns |-> NoPatterns,
     chartData |-> NoChartData,
     progressPercentage |->
         preSave(DefaultProgressPercentage,
                 [currentWeight |-> body.currentWeight,
                  goalWeight |-> body.goalWeight,
                  weeklyProgress |-> <<>>]),
     createdAt |-> now]

\* A create that replaces the collection.
TrackingCreateReplacing(tracking) == <<tracking>>

\* Tracking.create: the collection with the new document.
TrackingCreate(tracking) == Append(store, tracking)

initializeTracking(userId, body) ==
    /\ LET analysis == getIntelligentAnalysis(body, now)
           tracking == NewTracking(userId, body, analysis)
       IN  IF userId \notin KnownUsers
           THEN /\ resp' = Response("initializeTracking", userId, 404,
                                    "User not found", "", <<>>)
                /\ UNCHANGED store
           ELSE IF analysis.error # "ok"
           THEN /\ resp' = Response("initializeTracking", userId, 500,
                                    "Tracking Initialization failed", analysis.error, <<>>)
                /\ UNCHANGED store
           ELSE IF validateTracking(tracking) # "ok"
           THEN /\ resp' = Response("initializeTracking", userId, 500,
                                    "Tracking Initialization failed",
                                    validateTracking(tracking), <<>>)
                /\ UNCHANGED store
           ELSE /\ Len(store) < MaxRecords
                /\ store' = TrackingCreate(tracking)
                /\ resp' = Response("initializeTracking", userId, 201, "", "",
                                    <<tracking>>)
    /\ UNCHANGED <<now, pending, users, issued>>

(***************************************************************************)
(* updateTracking, in two steps: from the request to the call of           *)
(* tracking.save() (the user and the latest document are read, the         *)
(* document is changed in memory), and the save itself.  Another request   *)
(* can be served between the two.                                          *)
(***************************************************************************)
UpdatedTracking(tracking, updatedWeight, bodyHeight) ==
    LET height == IF Truthy(tracking.height) THEN tracking.height
                  ELSE IF Truthy(userHeight) THEN userHeight ELSE bodyHeight
        trackingData ==
            [currentWeight |-> updatedWeight,
             goalWeight |-> tracking.goalWeight,
             durationWeeks |-> tracking.durationWeeks,
             age |-> IF Truthy(tracking.age) THEN tracking.age ELSE userAge,
             height |-> height,
             activityLevel |-> IF TruthyStr(tracking.activityLevel)
                               THEN tracking.activityLevel ELSE userActivityLevel,
             dailyCalories |-> Undefined]
        analysis == getIntelligentAnalysis(trackingData, now)
        noted == [tracking EXCEPT
                    !.currentWeight = updatedWeight,
                    !.progressNotes =
                        Append(@, UpdateNote(updatedWeight, updatedWeight, now))]
        projected == [noted EXCEPT
                    !.dailyCalories = analysis.dailyCalories,
                    !.mealDistribution =
                        calculateOptimalMealDistribution(analysis.dailyCalories,
                            trackingData.activityLevel, TRUE),
                    !.weeklyProgress =
                        generateProgressProjection(trackingData, tracking.createdAt, now)]
        advised == [projected EXCEPT
                    !.recommendations =
                        SchemaRecommendations(generateRecommendations(projected)),
                    !.progressPatterns = detectProgressPatterns(projected.weeklyProgress)]
    IN  [error |-> analysis.error,
         tracking |-> IF analysis.error # "ok" THEN <<>>
                      ELSE <<[advised EXCEPT !.chartData = generateChartData(advised)]>>]

\* A request is served in the first free slot.
FreeSlot(p) ==
    /\ pending[p].pc = "idle"
    /\ \A q \in Procs : q < p => pending[q].pc # "idle"

updateTrackingLoad(p, userId, updatedWeight, bodyHeight) ==
    /\ FreeSlot(p)
    /\ LET id == FindLatest(userId)
           tracking == store[id]
           updated == UpdatedTracking(tracking, updatedWeight, bodyHeight)
       IN  IF userId \notin KnownUsers
           THEN /\ resp' = Response("updateTracking", userId, 404, "User not found",
                                    "", <<>>)
                /\ UNCHANGED pending
           ELSE IF id = 0
           THEN /\ resp' = Response("updateTracking", userId, 404,
                                    "Tracking data not found", "", <<>>)
                /\ UNCHANGED pending
           ELSE IF ~Truthy(userHeight) /\ ~Truthy(bodyHeight) /\ ~Truthy(tracking.height)
           THEN /\ resp' = Response("updateTracking", userId, 400,
                                    "User height data is missing in profile", "", <<>>)
                /\ UNCHANGED pending
           ELSE /\ Len(tracking.progressNotes) < MaxNotes
                /\ IF updated.error # "ok"
                   THEN /\ resp' = Response("updateTracking", userId, 500,
                                            "Tracking Update failed", updated.error, <<>>)
                        /\ UNCHANGED pending
                   ELSE /\ pending' = [pending EXCEPT ![p] =
                                          [pc |-> "save", user |-> userId, id |-> id,
                                           loaded |-> <<tracking>>,
                                           tracking |-> updated.tracking]]
                        /\ UNCHANGED resp
    /\ UNCHANGED <<store, now, users, issued>>

(***************************************************************************)
(* tracking.save().  The document tracks its changes: save() writes the    *)
(* paths whose value differs from the value loaded ($set), an array of     *)
(* subdocuments that was assigned and is not empty (its elements are new   *)
(* subdocuments), and sends the elements pushed on progressNotes as a      *)
(* $push, which the collection applies to the array it holds.  The query   *)
(* of updateTracking does not select the version key, so the write is not  *)
(* conditional on the version, and it does not select chartData, so the    *)
(* chartData assigned is written whole.                                    *)
(***************************************************************************)
Written(current, loaded, assigned) == IF assigned # loaded THEN assigned ELSE current

WrittenArray(current, loaded, assigned) ==
    IF assigned # loaded \/ Len(assigned) > 0 THEN assigned ELSE current

\* A save that sends no $push.
PushedNotesNone(loaded, tracking) == <<>>

PushedNotes(loaded, tracking) ==
    SubSeq(tracking.progressNotes, Len(loaded.progressNotes) + 1,
           Len(tracking.progressNotes))

\* A save that sets progressNotes to the array in memory instead of pushing.
SavedDocumentSettingNotes(current, loaded, tracking) ==
    [current EXCEPT
        !.currentWeight = Written(@, loaded.currentWeight, tracking.currentWeight),
        !.progressNotes = tracking.progressNotes,
        !.dailyCalories = Written(@, loaded.dailyCalories, tracking.dailyCalories),
        !.mealDistribution =
            Written(@, loaded.mealDistribution, tracking.mealDistribution),
        !.weeklyProgress =
            WrittenArray(@, loaded.weeklyProgress, tracking.weeklyProgress),
        !.recommendations =
            Written(@, loaded.recommendations, tracking.recommendations),
        !.progressPatterns =
            Written(@, loaded.progressPatterns, tracking.progressPatterns),
        !.chartData = tracking.chartData,
        !.progressPercentage = preSave(@, tracking)]

\* A save that leaves the recommendations of the collection as they are.
SavedDocumentKeepingRecommendations(current, loaded, tracking) ==
    [current EXCEPT
        !.currentWeight = Written(@, loaded.currentWeight, tracking.currentWeight),
        !.progressNotes = @ \o PushedNotes(loaded, tracking),
        !.dailyCalories = Written(@, loaded.dailyCalories, tracking.dailyCalories),
        !.mealDistribution =
            Written(@, loaded.mealDistribution, tracking.mealDistribution),
        !.weeklyProgress =
            WrittenArray(@, loaded.weeklyProgress, tracking.weeklyProgress),
        !.progressPatterns =
            Written(@, loaded.progressPatterns, tracking.progressPatterns),
        !.chartData = tracking.chartData,
        !.progressPercentage = preSave(@, tracking)]

SavedDocument(current, loaded, tracking) ==
    [current EXCEPT
        !.currentWeight = Written(@, loaded.currentWeight, tracking.currentWeight),
        !.progressNotes = @ \o PushedNotes(loaded, tracking),
        !.dailyCalories = Written(@, loaded.dailyCalories, tracking.dailyCalories),
        !.mealDistribution =
            Written(@, loaded.mealDistribution, tracking.mealDistribution),
        !.weeklyProgress =
            WrittenArray(@, loaded.weeklyProgress, tracking.weeklyProgress),
        !.recommendations =
            Written(@, loaded.recommendations, tracking.recommendations),
        !.progressPatterns =
            Written(@, loaded.progressPatterns, tracking.progressPatterns),
        !.chartData = tracking.chartData,
        !.progressPercentage = preSave(@, tracking)]

\* A save that writes the document before it validates it.
updateTrackingSaveUnvalidated(p) ==
    /\ pending[p].pc = "save"
    /\ LET tracking == pending[p].tracking[1]
           loaded == pending[p].loaded[1]
           id == pending[p].id
       IN  /\ store' = [store EXCEPT ![id] = SavedDocument(@, loaded, tracking)]
           /\ IF validateTracking(tracking) # "ok"
              THEN resp' = Response("updateTracking", pending[p].user, 500,
                                    "Tracking Update failed",
                                    validateTracking(tracking), <<>>)
              ELSE resp' = Response("updateTracking", pending[p].user, 200, "", "",
                                    <<tracking>>)
    /\ pending' = [pending EXCEPT ![p] = Idle]
    /\ UNCHANGED <<now, users, issued>>

updateTrackingSave(p) ==
    /\ pending[p].pc = "save"
    /\ LET tracking == pending[p].tracking[1]
           loaded == pending[p].loaded[1]
           id == pending[p].id
       IN  IF validateTracking(tracking) # "ok"
           THEN /\ resp' = Response("updateTracking", pending[p].user, 500,
                                    "Tracking Update failed",
                                    validateTracking(tracking), <<>>)
                /\ UNCHANGED store
           ELSE /\ store' = [store EXCEPT ![id] = SavedDocument(@, loaded, tracking)]
                /\ resp' = Response("updateTracking", pending[p].user, 200, "", "",
                                    <<tracking>>)
    /\ pending' = [pending EXCEPT ![p] = Idle]
    /\ UNCHANGED <<now, users, issued>>

(***************************************************************************)
(* The reads.                                                              *)
(***************************************************************************)
\* A read that computes the recommendations from the projection of the read.
TrackingDetailsRecomputed(tracking) ==
    LET weeklyProgress == generateProgressProjection(tracking, tracking.createdAt, now)
    IN  [userId |-> tracking.user,
         currentWeight |-> tracking.currentWeight,
         goalWeight |-> tracking.goalWeight,
         dailyCalories |-> tracking.dailyCalories,
         mealDistribution |-> tracking.mealDistribution,
         weeklyProgress |-> weeklyProgress,
         recommendations |->
             SchemaRecommendations(generateRecommendations(
                 [tracking EXCEPT !.weeklyProgress = weeklyProgress])),
         progressNotes |-> tracking.progressNotes,
         progressPatterns |-> detectProgressPatterns(weeklyProgress),
         chartData |-> generateChartData(tracking),
         progressPercentage |-> tracking.progressPercentage]

TrackingDetails(tracking) ==
    LET weeklyProgress == generateProgressProjection(tracking, tracking.createdAt, now)
    IN  [userId |-> tracking.user,
         currentWeight |-> tracking.currentWeight,
         goalWeight |-> tracking.goalWeight,
         dailyCalories |-> tracking.dailyCalories,
         mealDistribution |-> tracking.mealDistribution,
         weeklyProgress |-> weeklyProgress,
         recommendations |-> tracking.recommendations,
         progressNotes |-> tracking.progressNotes,
         progressPatterns |-> detectProgressPatterns(weeklyProgress),
         chartData |-> generateChartData(tracking),
         progressPercentage |-> tracking.progressPercentage]

\* A read that stores the projection it has computed.
getTrackingWritingBack(userId) ==
    LET id == FindLatest(userId)
    IN  /\ IF id = 0
           THEN /\ resp' = Response("getTracking", userId, 404,
                                    "No tracking data found", "", <<>>)
                /\ UNCHANGED store
           ELSE /\ resp' = Response("getTracking", userId, 200, "", "",
                                    <<TrackingDetails(store[id])>>)
                /\ store' = [store EXCEPT ![id].weeklyProgress =
                                 TrackingDetails(store[id]).weeklyProgress]
        /\ UNCHANGED <<now, pending, users, issued>>

getTracking(userId) ==
    /\ LET id == FindLatest(userId)
       IN  IF id = 0
           THEN resp' = Response("getTracking", userId, 404, "No tracking data found",
                                 "", <<>>)
           ELSE resp' = Response("getTracking", userId, 200, "", "",
                                 <<TrackingDetails(store[id])>>)
    /\ UNCHANGED <<store, now, pending, users, issued>>

\* The documents of a user sorted by createdAt ascending.
RECURSIVE OldestFirst(_, _)
OldestFirst(userId, n) ==
    IF n = 0 THEN <<>>
    ELSE IF store[n].user = userId THEN OldestFirst(userId, n - 1) \o <<store[n]>>
    ELSE OldestFirst(userId, n - 1)

\* Tracking.find({user}).sort({createdAt: -1}): the documents of the user,
\* newest first.
RECURSIVE NewestFirst(_, _)
NewestFirst(userId, n) ==
    IF n = 0 THEN <<>>
    ELSE IF store[n].user = userId THEN <<store[n]>> \o NewestFirst(userId, n - 1)
    ELSE NewestFirst(userId, n - 1)

getTrackingHistory(userId) ==
    /\ LET trackingHistory == NewestFirst(userId, Len(store))
       IN  IF Len(trackingHistory) = 0
           THEN resp' = Response("getTrackingHistory", userId, 404,
                                 "No tracking history found", "", <<>>)
           ELSE resp' = Response("getTrackingHistory", userId, 200, "", "",
                                 trackingHistory)
    /\ UNCHANGED <<store, now, pending, users, issued>>

StandardizedTracking(tracking) ==
    LET weeklyProgress == generateProgressProjection(tracking, tracking.createdAt, now)
    IN  [user |-> tracking.user,
         currentWeight |-> tracking.currentWeight,
         age |-> tracking.age,
         height |-> tracking.height,
         activityLevel |-> tracking.activityLevel,
         goalWeight |-> tracking.goalWeight,
         durationWeeks |-> tracking.durationWeeks,
         dailyCalories |-> tracking.dailyCalories,
         mealDistribution |-> tracking.mealDistribution,
         weeklyProgress |-> weeklyProgress,
         recommendations |-> generateRecommendations(tracking),
         progressNotes |-> tracking.progressNotes,
         progressPatterns |-> detectProgressPatterns(weeklyProgress),
         adherenceMetrics |-> calculateAdherenceMetrics(tracking, weeklyProgress),
         chartData |-> generateChartData(tracking),
         createdAt |-> tracking.createdAt]

getAllTracking(userId) ==
    /\ LET id == FindLatest(userId)
       IN  IF userId \notin KnownUsers
           THEN resp' = Response("getAllTracking", userId, 404, "User not found",
                                 "", <<>>)
           ELSE IF id = 0
           THEN resp' = Response("getAllTracking", userId, 404,
                                 "No tracking data found", "", <<>>)
           ELSE resp' = Response("getAllTracking", userId, 200, "", "",
                                 <<StandardizedTracking(store[id])>>)
    /\ UNCHANGED <<store, now, pending, users, issued>>

\* Time passes.
Tick ==
    /\ now + DayStep <= MaxDay
    /\ now' = now + DayStep
    /\ UNCHANGED <<store, pending, resp, users, issued>>

\* The requests of the API, one call of updateTracking in progress at a time.
Next ==
    \/ \E userId \in UserIds, body \in InitBodies : initializeTracking(userId, body)
    \/ \E userId \in UserIds, updatedWeight \in UpdatedWeights,
          bodyHeight \in BodyHeights :
           updateTrackingLoad(1, userId, updatedWeight, bodyHeight)
    \/ updateTrackingSave(1)
    \/ \E userId \in UserIds : getTracking(userId)
    \/ \E userId \in UserIds : getTrackingHistory(userId)
    \/ \E userId \in UserIds : getAllTracking(userId)
    \/ Tick

Spec == Init /\ [][Next]_vars

\* The writes of one user, two calls of updateTracking in progress at a time.
RaceUsers == {1}

NextRace ==
    \/ \E userId \in RaceUsers, body \in InitBodies : initializeTracking(userId, body)
    \/ \E p \in Procs, userId \in RaceUsers, updatedWeight \in UpdatedWeights,
          bodyHeight \in BodyHeights :
           updateTrackingLoad(p, userId, updatedWeight, bodyHeight)
    \/ \E p \in Procs : updateTrackingSave(p)
    \/ Tick

SpecRace == Init /\ [][NextRace]_vars

(***************************************************************************)
(* A collection that holds a document written before the schema had age,   *)
(* height and activityLevel (the earlier schema and controller are kept in *)
(* the source files): 80 kg to 75 kg in 8 weeks, with the calories and the *)
(* note of the analysis of that time.  Its meal distribution is left out.  *)
(***************************************************************************)
LegacyTracking ==
    [user |-> 1,
     currentWeight |-> 80,
     goalWeight |-> 75,
     durationWeeks |-> 8,
     age |-> Undefined,
     height |-> Undefined,
     activityLevel |-> UndefinedStr,
     dailyCalories |-> 2015,
     mealDistribution |-> NoMealDistribution,
     weeklyProgress |-> <<>>,
     recommendations |-> NoRecommendations,
     progressNotes |-> <<[kind |-> "Initial tracking started", number |-> 750,
                          unit |-> "kg", weeks |-> 8, date |-> 0]>>,
     progressPatterns |-> NoPatterns,
     chartData |-> NoChartData,
     progressPercentage |-> DefaultProgressPercentage,
     createdAt |-> 0]

InitLegacy ==
    /\ store = <<LegacyTracking>>
    /\ now = 0
    /\ pending = [p \in Procs |-> Idle]
    /\ resp = [op |-> "none", user |-> 0, status |-> 0, error |-> "",
               details |-> "", body |-> <<>>]
    /\ users = <<>>
    /\ issued = 0

SpecLegacy == InitLegacy /\ [][Next]_vars

(***************************************************************************)
(* getIntelligentAnalysis on its own: the function is applied to each      *)
(* input of AnalysisInputs and the outcome is kept in resp, with the input *)
(* in body[1].params and the value returned in body[1].analysis.           *)
(***************************************************************************)
\* A plan with one field missing, null or not positive.
DefectiveInputs ==
    LET plan == Body(180, 160, 8, 30, 70, "moderatelyActive")
    IN  {[plan EXCEPT !.currentWeight = v] : v \in {Undefined, Null, -5}}
        \cup {[plan EXCEPT !.goalWeight = v] : v \in {Undefined, Null}}
        \cup {[plan EXCEPT !.durationWeeks = v] : v \in {Undefined, Null}}
        \cup {[plan EXCEPT !.age = v] : v \in {Null}}
        \cup {[plan EXCEPT !.height = v] : v \in {Undefined, Null, 0, -1}}
        \cup {[plan EXCEPT !.activityLevel = v] : v \in {UndefinedStr, NullStr}}

AnalysisInputs ==
    {Body(currentWeight, goalWeight, durationWeeks, age, height, activityLevel) :
        currentWeight \in {0, 70, 180, 300},
        goalWeight \in {80, 100, 160},
        durationWeeks \in {1, 8},
        age \in {30, Undefined},
        height \in {2, 70},
        activityLevel \in {"sedentary", "moderatelyActive", "extraActive", "couch"}}
    \cup DefectiveInputs

Analyse(params) ==
    /\ LET analysis == getIntelligentAnalysis(params, now)
       IN  resp' = Response("getIntelligentAnalysis", 0,
                            IF analysis.error = "ok" THEN 200 ELSE 500, "",
                            analysis.error,
                            <<[params |-> params, analysis |-> analysis]>>)
    /\ UNCHANGED <<store, now, pending, users, issued>>

NextAnalysis == \E params \in AnalysisInputs : Analyse(params)

SpecAnalysis == Init /\ [][NextAnalysis]_vars

\* A valid input of getIntelligentAnalysis: every field present, the activity
\* level in the enumeration, currentWeight > 0, height > 0, durationWeeks >= 1.
ValidAnalysisInput(params) ==
    /\ IsNumber(params.currentWeight) /\ params.currentWeight > 0
    /\ IsNumber(params.goalWeight)
    /\ IsNumber(params.durationWeeks) /\ params.durationWeeks >= 1
    /\ IsNumber(params.age)
    /\ IsNumber(params.height) /\ params.height > 0
    /\ params.activityLevel \in validActivityLevels

Analysed == resp.op = "getIntelligentAnalysis"

\* C1: for every valid input of getIntelligentAnalysis the dailyCalories
\* returned is a number >= 0, also when goalWeight > currentWeight and when
\* the loss asked for is large for durationWeeks.  The code returns
\* round(TDEE - deficit) with no lower bound: 300 lb to 100 lb in one week
\* gives -97036.
C1_DailyCaloriesNonNegative ==
    (Analysed /\ ValidAnalysisInput(resp.body[1].params))
        => /\ IsNumber(resp.body[1].analysis.dailyCalories)
           /\ resp.body[1].analysis.dailyCalories >= 0

\* C1: an analysis of a valid input that returned a negative dailyCalories.
C1_NegativeCaloriesReturned ==
    /\ Analysed
    /\ ValidAnalysisInput(resp.body[1].params)
    /\ resp.body[1].analysis.error = "ok"
    /\ resp.body[1].analysis.dailyCalories < 0

(***************************************************************************)
(* The persisted records.                                                  *)
(***************************************************************************)
\* C2: in every reachable state every persisted record has a numeric
\* dailyCalories >= 0 (the schema rejects a create or a save of a document
\* whose dailyCalories is negative or not a number).
C2_PersistedCaloriesNonNegative ==
    \A i \in 1..Len(store) :
        IsNumber(store[i].dailyCalories) /\ store[i].dailyCalories >= 0

\* C2: a record that an updateTracking has changed is persisted, and a write
\* with negative calories has just been refused.
C2_NegativeCaloriesRefused ==
    /\ \E i \in 1..Len(store) : Len(store[i].progressNotes) > 1
    /\ resp.status = 500
    /\ resp.details = "Calories cannot be negative"

\* C5: every persisted weeklyProgress is no longer than durationWeeks of its
\* record, and the projection of a record is empty once the current week,
\* floor(days since the anchor / 7) + 1, is greater than durationWeeks.
C5_ProjectionWithinDuration ==
    \A i \in 1..Len(store) :
        /\ Len(store[i].weeklyProgress) <= store[i].durationWeeks
        /\ CurrentWeek(store[i].createdAt, now) > store[i].durationWeeks
              => generateProgressProjection(store[i], store[i].createdAt, now) = <<>>

\* C5: a record updated after the last week of its plan, with an empty
\* weeklyProgress persisted.
C5_UpdatedPastDuration ==
    \E i \in 1..Len(store) :
        /\ CurrentWeek(store[i].createdAt, now) > store[i].durationWeeks
        /\ Len(store[i].progressNotes) > 1
        /\ store[i].weeklyProgress = <<>>
        /\ NoteWeight(store[i].progressNotes[2]) = 10 * store[i].currentWeight
        /\ store[i].progressNotes[2].date > store[i].createdAt

(***************************************************************************)
(* getTracking twice.  resp holds the last response, and every write of    *)
(* the collection answers: when a response of getTracking follows a        *)
(* response of getTracking for the same user, no record was written        *)
(* between the two calls and only time can have passed.                    *)
(***************************************************************************)
GetTrackingTwice ==
    /\ resp.op = "getTracking" /\ resp.status = 200
    /\ resp'.op = "getTracking" /\ resp'.status = 200
    /\ resp'.user = resp.user

\* C4 as stated: two calls of getTracking with no write in between return
\* the same weeklyProgress, progressPatterns, chartData and recommendations,
\* whatever the time between them.
C4_SameDerivedFieldsWheneverRead ==
    [][GetTrackingTwice =>
          /\ resp'.body[1].weeklyProgress = resp.body[1].weeklyProgress
          /\ resp'.body[1].progressPatterns = resp.body[1].progressPatterns
          /\ resp'.body[1].chartData = resp.body[1].chartData
          /\ resp'.body[1].recommendations = resp.body[1].recommendations]_vars

\* C4, amended: two calls of getTracking with no write in between return
\* the same progressPatterns, chartData and recommendations whatever the
\* time between them; the weeklyProgress is the same when the second call
\* falls in the plan week of the first, and stays empty once it is empty.
C4_SameDerivedFieldsInSameWeek ==
    [][GetTrackingTwice =>
          /\ resp'.body[1].progressPatterns = resp.body[1].progressPatterns
          /\ resp'.body[1].chartData = resp.body[1].chartData
          /\ resp'.body[1].recommendations = resp.body[1].recommendations
          /\ resp.body[1].weeklyProgress = <<>> => resp'.body[1].weeklyProgress = <<>>
          /\ (/\ resp.body[1].weeklyProgress # <<>>
              /\ CurrentWeek(store[FindLatest(resp.user)].createdAt, now)
                     = resp.body[1].weeklyProgress[1].week)
                => resp'.body[1].weeklyProgress = resp.body[1].weeklyProgress]_vars

\* C4: getTracking has answered for a record created four days earlier, in
\* the first week of its plan.
C4_ReadLaterInSameWeek ==
    /\ resp.op = "getTracking" /\ resp.status = 200
    /\ Len(resp.body[1].weeklyProgress) = 1
    /\ resp.body[1].weeklyProgress[1].week = 1
    /\ now = store[FindLatest(resp.user)].createdAt + DayStep

(***************************************************************************)
(* initializeTracking.                                                     *)
(***************************************************************************)
\* C6: initializeTracking for an unknown user answers 404 "User not found"
\* and creates nothing; for a known user and valid biometrics it answers
\* 201 and persists exactly one new record of the user, with an empty
\* weeklyProgress and the dailyCalories and mealDistribution of
\* getIntelligentAnalysis.  The code answers 500 when the analysis of valid
\* biometrics returns negative calories (C1).
C6_InitializeOutcomes ==
    [][\A userId \in UserIds, body \in InitBodies :
          initializeTracking(userId, body) =>
             IF userId \notin KnownUsers
             THEN /\ resp'.status = 404
                  /\ resp'.error = "User not found"
                  /\ store' = store
             ELSE ValidAnalysisInput(body) =>
                    /\ resp'.status = 201
                    /\ Len(store') = Len(store) + 1
                    /\ SubSeq(store', 1, Len(store)) = store
                    /\ store'[Len(store')].user = userId
                    /\ store'[Len(store')].weeklyProgress = <<>>
                    /\ store'[Len(store')].dailyCalories
                          = getIntelligentAnalysis(body, now).dailyCalories
                    /\ store'[Len(store')].mealDistribution
                          = getIntelligentAnalysis(body, now).mealDistribution]_vars

(***************************************************************************)
(* updateTracking: the refusals.                                           *)
(***************************************************************************)
NoRecordOf(userId) == \A i \in 1..Len(store) : store[i].user # userId

\* A step of updateTracking before its save answers or parks the call.
UpdateCallStep == resp'.op = "updateTracking" \/ pending' # pending

\* C7: updateTracking answers 404 when the user is unknown and when the
\* user has no record, 400 when neither the latest record nor the user nor
\* the request has a height, and leaves the collection as it is in each
\* case.
C7_UpdateRefusals ==
    [][UpdateCallStep =>
        \A userId \in UserIds :
          /\ userId \notin KnownUsers =>
                \A p \in Procs, updatedWeight \in UpdatedWeights,
                   bodyHeight \in BodyHeights :
                    updateTrackingLoad(p, userId, updatedWeight, bodyHeight)
                      => /\ resp'.status = 404 /\ resp'.error = "User not found"
                         /\ store' = store /\ pending' = pending
          /\ (userId \in KnownUsers /\ NoRecordOf(userId)) =>
                \A p \in Procs, updatedWeight \in UpdatedWeights,
                   bodyHeight \in BodyHeights :
                    updateTrackingLoad(p, userId, updatedWeight, bodyHeight)
                      => /\ resp'.status = 404
                         /\ resp'.error = "Tracking data not found"
                         /\ store' = store /\ pending' = pending
          /\ (/\ userId \in KnownUsers /\ ~NoRecordOf(userId)
              /\ ~Truthy(store[FindLatest(userId)].height)
              /\ ~Truthy(userHeight)) =>
                \A p \in Procs, updatedWeight \in UpdatedWeights,
                   bodyHeight \in BodyHeights :
                    (~Truthy(bodyHeight)
                       /\ updateTrackingLoad(p, userId, updatedWeight, bodyHeight))
                      => /\ resp'.status = 400
                         /\ resp'.error = "User height data is missing in profile"
                         /\ store' = store /\ pending' = pending]_vars

\* C7: updateTracking has answered 400 for a user whose latest record has
\* no height, the collection holding what it held at the start and a record
\* of another user.
C7_RefusedWithoutHeight ==
    /\ resp.op = "updateTracking" /\ resp.status = 400
    /\ resp.error = "User height data is missing in profile"
    /\ ~NoRecordOf(resp.user)
    /\ ~Truthy(store[FindLatest(resp.user)].height)
    /\ store[1] = LegacyTracking
    /\ Len(store) > 1

(***************************************************************************)
(* The records of a user.                                                  *)
(***************************************************************************)
CountOf(collection, userId) ==
    Cardinality({i \in 1..Len(collection) : collection[i].user = userId})

\* C10: no step removes a record or gives it to another user; a successful
\* initializeTracking adds exactly one record of its user, and every other
\* step leaves the number of records of every user as it is.
C10_RecordsOnlyAdded ==
    [][/\ \A i \in 1..Len(store) :
            /\ i <= Len(store')
            /\ store'[i].user = store[i].user
            /\ store'[i].createdAt = store[i].createdAt
       /\ \A userId \in UserIds :
            CountOf(store', userId) = CountOf(store, userId)
                + (IF /\ store' # store
                      /\ resp'.status = 201
                      /\ \E body \in InitBodies : initializeTracking(userId, body)
                   THEN 1 ELSE 0)]_vars

\* C10: a user has two records, the first of them updated, and
\* getTrackingHistory has returned both.
C10_TwoRecordsKept ==
    /\ resp.op = "getTrackingHistory" /\ resp.status = 200
    /\ Len(resp.body) = 2
    /\ CountOf(store, resp.user) = 2
    /\ Len(store[1].progressNotes) > 1

(***************************************************************************)
(* updateTracking: the save.                                               *)
(***************************************************************************)
\* The save of the call in slot p is done and answered with success.
SaveSucceeds(p) ==
    /\ pending[p].pc = "save"
    /\ pending'[p].pc = "idle"
    /\ updateTrackingSave(p)
    /\ resp'.status = 200

\* Another updateTracking has saved to the record since the call in slot p
\* read it: the two calls interleave.
Interleaved(p) ==
    /\ pending[p].pc = "save"
    /\ Len(store[pending[p].id].progressNotes)
          > Len(pending[p].loaded[1].progressNotes)

\* No write has reached the records of the user since the call in slot p
\* read the latest of them.
Undisturbed(p) ==
    /\ pending[p].pc = "save"
    /\ FindLatest(pending[p].user) = pending[p].id
    /\ store[pending[p].id] = pending[p].loaded[1]

LastOf(s) == s[Len(s)]

\* C3 as stated: when two calls of updateTracking interleave and both
\* succeed, the persisted record reflects only the later save, with the
\* weight and the progress note of the earlier save lost.
C3_OnlyLaterSavePersisted ==
    [][\A p \in Procs :
          (Interleaved(p) /\ SaveSucceeds(p)) =>
             /\ store'[pending[p].id].currentWeight
                   = pending[p].tracking[1].currentWeight
             /\ store'[pending[p].id].progressNotes
                   = pending[p].tracking[1].progressNotes]_vars

\* C3, amended: when two calls of updateTracking interleave, both succeed;
\* the later save overwrites the weight, the calories and the derived fields
\* it changed, so the weight of the earlier save is lost, but the progress
\* note of the earlier save stays, followed by the note of the later one.
C3_LaterSaveOverwritesButKeepsNotes ==
    [][\A p \in Procs :
          (Interleaved(p) /\ SaveSucceeds(p)) =>
             /\ store'[pending[p].id].progressNotes
                   = Append(store[pending[p].id].progressNotes,
                            LastOf(pending[p].tracking[1].progressNotes))
             /\ Len(store'[pending[p].id].progressNotes)
                   > Len(pending[p].tracking[1].progressNotes)
             /\ pending[p].tracking[1].currentWeight
                      # pending[p].loaded[1].currentWeight
                   => store'[pending[p].id].currentWeight
                        = pending[p].tracking[1].currentWeight
             /\ pending[p].tracking[1].dailyCalories
                      # pending[p].loaded[1].dailyCalories
                   => store'[pending[p].id].dailyCalories
                        = pending[p].tracking[1].dailyCalories
             /\ store'[pending[p].id].chartData = pending[p].tracking[1].chartData]_vars

\* C3: two interleaved updates with different weights have both succeeded:
\* the record holds the weight of the later save and the notes of both, and
\* the document returned by the later call has only its own note.
C3_BothNotesAfterRace ==
    /\ resp.op = "updateTracking" /\ resp.status = 200
    /\ \E i \in 1..Len(store) :
          /\ Len(store[i].progressNotes) = Len(resp.body[1].progressNotes) + 1
          /\ LastOf(store[i].progressNotes) = LastOf(resp.body[1].progressNotes)
          /\ store[i].currentWeight = resp.body[1].currentWeight
          /\ NoteWeight(store[i].progressNotes[Len(store[i].progressNotes) - 1])
                # 10 * store[i].currentWeight

\* The record of the user of slot p that is the latest after the step.
LatestAfter(p) == store'[FindLatest(pending[p].user)]

\* The derived fields of record are those computed from record itself: the
\* calories from its weight, goal, duration, age, height and activity
\* level, the projection (at a time up to now, from the weight, the goal and
\* the duration, with no calories in its entry), the recommendations, the
\* patterns and the chart data.
FreshlyDerived(record) ==
    /\ record.dailyCalories
          = getIntelligentAnalysis(
                Body(record.currentWeight, record.goalWeight, record.durationWeeks,
                     record.age, record.height, record.activityLevel),
                now).dailyCalories
    /\ \E date \in 0..now :
          record.weeklyProgress
            = generateProgressProjection([record EXCEPT !.dailyCalories = Undefined],
                                         record.createdAt, date)
    /\ record.recommendations = SchemaRecommendations(generateRecommendations(record))
    /\ record.progressPatterns = detectProgressPatterns(record.weeklyProgress)
    /\ record.chartData = generateChartData(record)

IsPrefix(s, t) == Len(s) <= Len(t) /\ SubSeq(t, 1, Len(s)) = s

\* C9: in every step the progressNotes of every persisted record are a
\* prefix of its progressNotes after the step, and a successful
\* updateTracking adds exactly one note to the record it saves and none to
\* another.
C9_NotesAppendOnly ==
    [][/\ \A i \in 1..Len(store) :
            /\ i <= Len(store')
            /\ IsPrefix(store[i].progressNotes, store'[i].progressNotes)
       /\ \A p \in Procs :
            SaveSucceeds(p) =>
               \A i \in 1..Len(store) :
                  Len(store'[i].progressNotes)
                    = Len(store[i].progressNotes)
                        + (IF i = pending[p].id THEN 1 ELSE 0)]_vars

\* C9: a record holds the initial note and the notes of two updates, in the
\* order of their saves.
C9_ThreeNotesInOrder ==
    \E i \in 1..Len(store) :
        /\ Len(store[i].progressNotes) = 3
        /\ store[i].progressNotes[1].kind = "Initial tracking started"
        /\ store[i].progressNotes[2].kind = "Weight updated"
        /\ store[i].progressNotes[3].kind = "Weight updated"
        /\ store[i].progressNotes[2].date < store[i].progressNotes[3].date

(***************************************************************************)
(* updateTracking: the records it leaves alone.                            *)
(***************************************************************************)
\* The save of the call in slot p is done, with success or not.
SaveStep(p) ==
    /\ pending[p].pc = "save"
    /\ pending'[p].pc = "idle"
    /\ updateTrackingSave(p)

\* C11 as stated: a successful updateTracking changes no record but the
\* most recently created record of its user.
C11_OnlyLatestRecordChanged ==
    [][\A p \in Procs :
          SaveSucceeds(p) =>
             \A i \in 1..Len(store) :
                i # FindLatest(pending[p].user) => store'[i] = store[i]]_vars

\* C11, amended: updateTracking changes no record but the one that was the
\* most recently created record of its user when the call read it: the
\* save changes that record and no other, every other record of the user
\* is older or was created at or after the read (the date of the note of
\* the call), and the steps before the save change no record.
C11_OnlyRecordReadChanged ==
    [][/\ \A p \in Procs :
            SaveStep(p) =>
               /\ Len(store') = Len(store)
               /\ store[pending[p].id].user = pending[p].user
               /\ \A i \in 1..Len(store) :
                     i # pending[p].id =>
                        /\ store'[i] = store[i]
                        /\ store[i].user = pending[p].user =>
                              \/ store[i].createdAt <= store[pending[p].id].createdAt
                              \/ store[i].createdAt
                                    >= LastOf(pending[p].tracking[1].progressNotes).date
       /\ \A p \in Procs :
            (pending[p].pc = "idle" /\ pending'[p].pc = "save") => store' = store]_vars

\* C11: an update of the newer of the two records of a user has succeeded
\* and the older record is as it was created.
C11_OlderRecordUntouched ==
    /\ resp.op = "updateTracking" /\ resp.status = 200
    /\ Len(store) = 2
    /\ store[1].user = store[2].user
    /\ store[1].createdAt < store[2].createdAt
    /\ Len(store[1].progressNotes) = 1
    /\ store[2].progressNotes = resp.body[1].progressNotes
    /\ store[2].currentWeight = resp.body[1].currentWeight

(***************************************************************************)
(* getTrackingHistory.                                                     *)
(***************************************************************************)
HistoryStep ==
    /\ resp'.op = "getTrackingHistory"
    /\ store' = store /\ pending' = pending /\ now' = now
    /\ getTrackingHistory(resp'.user)

\* C12: getTrackingHistory(userId) returns every persisted record of the
\* user exactly once and no record of another user, each as stored, the
\* later created before the earlier created; a user without records gets
\* 404 and no record.
C12_HistoryIsAllOwnRecordsNewestFirst ==
    [][HistoryStep =>
          LET mine == RecordsOf(resp'.user)
              body == resp'.body
          IN  IF mine = {}
              THEN resp'.status = 404 /\ body = <<>>
              ELSE /\ resp'.status = 200
                   /\ Len(body) = Cardinality(mine)
                   /\ \E f \in [1..Len(body) -> mine] :
                         /\ \A j, k \in 1..Len(body) : j # k => f[j] # f[k]
                         /\ \A k \in 1..Len(body) : body[k] = store[f[k]]
                   /\ \A k \in 1..(Len(body) - 1) :
                         body[k].createdAt >= body[k + 1].createdAt]_vars

\* C12: a history of two records was returned, the later created first,
\* which is the updated record with both of its notes.
C12_TwoRecordsNewestFirst ==
    /\ resp.op = "getTrackingHistory" /\ resp.status = 200
    /\ Len(resp.body) = 2 /\ Len(store) = 2
    /\ resp.body[1] = store[2] /\ resp.body[2] = store[1]
    /\ resp.body[1].createdAt > resp.body[2].createdAt
    /\ Len(resp.body[1].progressNotes) = 2

(***************************************************************************)
(* getIntelligentAnalysis: the inputs it refuses.                          *)
(***************************************************************************)
\* The fields of an input that are missing, null, outside the enumeration
\* or not positive where a positive number is asked for.
DefectiveFields(params) ==
    {f \in {"currentWeight", "goalWeight", "durationWeeks", "age", "height"} :
        params[f] \in {Undefined, Null}}
    \cup (IF params.activityLevel \notin validActivityLevels
          THEN {"activityLevel"} ELSE {})
    \cup (IF IsNumber(params.currentWeight) /\ params.currentWeight <= 0
          THEN {"currentWeight"} ELSE {})
    \cup (IF IsNumber(params.height) /\ params.height <= 0 THEN {"height"} ELSE {})

\* The field that the message of an Error of validateAnalysisParams names.
FieldNamed(error) ==
    CASE error = "Missing required parameter: currentWeight" -> "currentWeight"
      [] error = "Missing required parameter: goalWeight" -> "goalWeight"
      [] error = "Missing required parameter: durationWeeks" -> "durationWeeks"
      [] error = "Missing required parameter: age" -> "age"
      [] error = "Missing required parameter: height" -> "height"
      [] error = "Missing required parameter: activityLevel" -> "activityLevel"
      [] error = "Invalid activity level" -> "activityLevel"
      [] error = "Current weight must be a positive number" -> "currentWeight"
      [] error = "Height must be a positive number" -> "height"
      [] OTHER -> "none"

\* C13: getIntelligentAnalysis fails, with an error that names such a
\* field, whenever one of currentWeight, goalWeight, durationWeeks, age,
\* height, activityLevel is missing or null, the activity level is outside
\* the enumeration, or currentWeight or height is not positive.  The code
\* does not look at age, and a null goalWeight is converted to 0 before the
\* fields are looked at.
C13_DefectiveInputRefused ==
    (Analysed /\ DefectiveFields(resp.body[1].params) # {})
        => /\ resp.status = 500
           /\ FieldNamed(resp.details) \in DefectiveFields(resp.body[1].params)

\* C13: an analysis of an input without age was returned with no error.
C13_MissingAgeAccepted ==
    /\ Analysed
    /\ resp.body[1].params.age = Undefined
    /\ DefectiveFields(resp.body[1].params) = {"age"}
    /\ resp.status = 200
    /\ resp.body[1].analysis.dailyCalories = NaN

(***************************************************************************)
(* The meal distribution of the persisted records.                         *)
(***************************************************************************)
\* The calories of the three meals of a record together.
MealSum(record) ==
    record.mealDistribution.morning + record.mealDistribution.afternoon
        + record.mealDistribution.night

\* A record that updateTracking has saved at least once.
Updated(record) == Len(record.progressNotes) > 1

\* The factors of the three meals together, times 20: the table factors at
\* initializeTracking, the morning factor cut to 0.25 at updateTracking.
FactorSum(record) ==
    LET f == distributionFactors(record.activityLevel)
    IN  IF Updated(record) THEN Min(f[1], 5) + f[2] + f[3] ELSE f[1] + f[2] + f[3]

RoundedTDEE(params) ==
    LET convertedCurrentWeight == convertUnits(params.currentWeight, "weight")
    IN  DailyCalories(convertedCurrentWeight, convertedCurrentWeight,
                      params.durationWeeks, params.age,
                      heightInInches(convertUnits(params.height, "height")),
                      params.activityLevel)

\* C15: whenever the goalWeight supplied is above the currentWeight
\* supplied, the deficit is 0 and dailyCalories = round(TDEE); for no input
\* is the deficit negative (dailyCalories is never above round(TDEE)).  The
\* code takes the difference of the converted weights, and a weight below
\* 100 is converted while one of 100 or more is not.
C15_NoDeficitWhenGoalAbove ==
    (Analysed /\ ValidAnalysisInput(resp.body[1].params))
        => LET params == resp.body[1].params
               dailyCalories == resp.body[1].analysis.dailyCalories
           IN  /\ dailyCalories <= RoundedTDEE(params)
               /\ params.goalWeight > params.currentWeight
                     => dailyCalories = RoundedTDEE(params)

\* C15, amended: whenever the converted goalWeight is not below the
\* converted currentWeight, the deficit is 0 and dailyCalories =
\* round(TDEE); for no input is the deficit negative.  A goal supplied above
\* the current weight supplied has a deficit when only the current weight
\* is below 100 and its conversion exceeds the goal.
C15_NoDeficitWhenConvertedGoalAbove ==
    (Analysed /\ ValidAnalysisInput(resp.body[1].params))
        => LET params == resp.body[1].params
               dailyCalories == resp.body[1].analysis.dailyCalories
               delta == convertUnits(params.currentWeight, "weight")
                           - convertUnits(params.goalWeight, "weight")
           IN  /\ dailyCalories <= RoundedTDEE(params)
               /\ delta <= 0 => dailyCalories = RoundedTDEE(params)
               /\ (params.goalWeight > params.currentWeight /\ delta > 0)
                     => /\ params.currentWeight < 100
                        /\ params.goalWeight >= 100
                        /\ dailyCalories < RoundedTDEE(params)

\* C15: an analysis of 70 (kilograms) with the goal 160 (pounds) was
\* returned with no deficit.
C15_NoDeficitForGoalAbove ==
    /\ Analysed
    /\ ValidAnalysisInput(resp.body[1].params)
    /\ resp.body[1].params.currentWeight = 70
    /\ resp.body[1].params.goalWeight = 160
    /\ IsNumber(resp.body[1].analysis.dailyCalories)
    /\ resp.body[1].analysis.dailyCalories = RoundedTDEE(resp.body[1].params)

(***************************************************************************)
(* getIntelligentAnalysis: the height.                                     *)
(***************************************************************************)
\* The height of an input in inches when a height of 10 or more is taken to
\* be in inches already, and a smaller one in metres.
InchesSupplied(height) ==
    IF height < 10 THEN heightInInches(convertUnits(height, "height")) ELSE height

\* C16: dailyCalories = round(BMR * multiplier - dailyDeficit) with BMR =
\* 10*weightKg + 6.25*heightCm - 5*age + 5, weightKg = 0.453592 times the
\* converted pounds and heightCm = 2.54 times the height in inches, so that
\* a height of 70 inches gives 177.8 cm; 180 lb to 160 lb in 8 weeks has the
\* deficit 1250.  The code multiplies a height of 10 or more by 12 before it
\* multiplies it by 2.54: a height of 70 gives 840 inches, 2133.6 cm.
C16_CaloriesFromHeightInInches ==
    (Analysed /\ ValidAnalysisInput(resp.body[1].params))
        => LET params == resp.body[1].params
               dailyCalories == resp.body[1].analysis.dailyCalories
           IN  /\ dailyCalories
                    = DailyCalories(convertUnits(params.currentWeight, "weight"),
                                    convertUnits(params.goalWeight, "weight"),
                                    params.durationWeeks, params.age,
                                    InchesSupplied(params.height),
                                    params.activityLevel)
               /\ (params.currentWeight = 180 /\ params.goalWeight = 160
                      /\ params.durationWeeks = 8)
                     => RoundedTDEE(params) - dailyCalories = 1250

\* C16: the analysis of a moderately active user of 30 years, 180 lb and a
\* height of 70, with the goal 160 lb in 8 weeks, returned 20460 calories a
\* day, the deficit being 1250; with 177.8 cm it would be 1513.
C16_SeventyTakenAsFeet ==
    /\ Analysed
    /\ resp.body[1].params = Body(180, 160, 8, 30, 70, "moderatelyActive")
    /\ resp.body[1].analysis.dailyCalories = 20460
    /\ RoundedTDEE(resp.body[1].params) = 21710
    /\ DailyCalories(180 * Scale, 160 * Scale, 8, 30, 70, "moderatelyActive") = 1513

(***************************************************************************)
(* convertUnits on its own: the values around the two limits, as a weight, *)
(* as a height and as a kind that the function does not know.              *)
(***************************************************************************)
UnitValues == (0..20) \cup (90..110)

UnitTypes == {"weight", "height", "length"}

Convert(value, type) ==
    /\ resp' = Response("convertUnits", 0, 200, "", type,
                        <<[value |-> value, converted |-> convertUnits(value, type)]>>)
    /\ UNCHANGED <<store, now, pending, users, issued>>

NextUnits == \E value \in UnitValues, type \in UnitTypes : Convert(value, type)

SpecUnits == Init /\ [][NextUnits]_vars

\* C17: convertUnits(value, 'weight') is value * 2.20462 for value < 100 and
\* value itself from 100 on; convertUnits(value, 'height') is value * 3.28084
\* for value < 10 and value itself from 10 on; for any other kind it is
\* value.  (The result is held in units of 1/100000.)
C17_ConvertUnitsByLimit ==
    resp.op = "convertUnits"
        => LET value == resp.body[1].value
               converted == resp.body[1].converted
           IN  /\ (resp.details = "weight" /\ value < 100) => converted = value * 220462
               /\ (resp.details = "weight" /\ value >= 100)
                     => converted = value * 100000
               /\ (resp.details = "height" /\ value < 10) => converted = value * 328084
               /\ (resp.details = "height" /\ value >= 10)
                     => converted = value * 100000
               /\ resp.details \notin {"weight", "height"} => converted = value * 100000

\* C17: the weight 100 was converted and came back as 100.
C17_HundredPassesThrough ==
    /\ resp.op = "convertUnits"
    /\ resp.details = "weight"
    /\ resp.body[1].value = 100
    /\ resp.body[1].converted = 100 * Scale

(***************************************************************************)
(* The unit of the weights of the persisted records.                       *)
(***************************************************************************)
\* C18: in every persisted record the weights are held in pounds: after
\* initializeTracking currentWeight and goalWeight are convertUnits of the
\* weights of the request, and after updateTracking currentWeight is
\* convertUnits of the updatedWeight of the request (the weight that the
\* note of the update quotes).  The code stores the weights of the request
\* as they are.
C18_StoredWeightsConverted ==
    [][/\ (store' # store /\ resp'.op = "initializeTracking" /\ resp'.status = 201)
            => \A body \in InitBodies :
                  initializeTracking(resp'.user, body)
                     => /\ LastOf(store').currentWeight * Scale
                              = convertUnits(body.currentWeight, "weight")
                        /\ LastOf(store').goalWeight * Scale
                              = convertUnits(body.goalWeight, "weight")
       /\ \A p \in Procs :
            SaveSucceeds(p)
               => store'[pending[p].id].currentWeight * Scale
                     = convertUnits(
                           LastOf(pending[p].tracking[1].progressNotes).number \div 10,
                           "weight")]_vars

\* C18: a persisted record holds the weights 70 and 80 of its request,
\* while its first note quotes the goal as 176.4 lbs.
C18_KilogramsStoredAsSupplied ==
    \E i \in 1..Len(store) :
        /\ store[i].currentWeight = 70
        /\ store[i].goalWeight = 80
        /\ store[i].progressNotes[1].number = 1764
        /\ store[i].progressNotes[1].unit = "lbs"
        /\ convertUnits(70, "weight") = 15432340

(***************************************************************************)
(* getTracking: the recommendations it returns.                            *)
(***************************************************************************)
GetTrackingStep ==
    /\ resp'.op = "getTracking" /\ resp'.status = 200
    /\ store' = store /\ pending' = pending /\ now' = now
    /\ getTracking(resp'.user)

\* The recommendations of a record computed anew at the time of the read,
\* from the record with the projection of that time, as the schema keeps
\* them.
RecommendationsOnRead(record) ==
    SchemaRecommendations(generateRecommendations(
        [record EXCEPT !.weeklyProgress =
            generateProgressProjection(record, record.createdAt, now)]))

CalorieTargets == {-97036, -3, 0, 1, 7, 10, 1513, 1999, 2000, 2171, 2419, 20460}

Distribute(dailyCalories, activityLevel, isUpdate) ==
    /\ resp' = Response("calculateOptimalMealDistribution", 0, 200, "", activityLevel,
                        <<[dailyCalories |-> dailyCalories, isUpdate |-> isUpdate,
                           mealDistribution |->
                               calculateOptimalMealDistribution(dailyCalories,
                                                                activityLevel, isUpdate)]>>)
    /\ UNCHANGED <<store, now, pending, users, issued>>

NextMeals ==
    \E dailyCalories \in CalorieTargets, activityLevel \in validActivityLevels,
       isUpdate \in BOOLEAN :
          Distribute(dailyCalories, activityLevel, isUpdate)

SpecMeals == Init /\ [][NextMeals]_vars

\* x is Math.round(dailyCalories * factor20 / 20): the integer nearest to
\* the product, the upper one of two equally near.
IsRoundedShare(x, dailyCalories, factor20) ==
    /\ 20 * x - dailyCalories * factor20 <= 10
    /\ 20 * x - dailyCalories * factor20 > -10

\* C20: with isUpdate = true calculateOptimalMealDistribution uses
\* min(morning ratio, 0.25) for the morning and the table ratios for the
\* afternoon and the night; with isUpdate = false it uses the three table
\* ratios, which sum to 1 for each of the five activity levels; in both
\* modes total is the dailyCalories given.
C20_MealRatiosByMode ==
    resp.op = "calculateOptimalMealDistribution"
        => LET call == resp.body[1]
               table == distributionFactors(resp.details)
               morningRatio == IF call.isUpdate THEN Min(table[1], 5) ELSE table[1]
           IN  /\ table[1] + table[2] + table[3] = 20
               /\ IsRoundedShare(call.mealDistribution.morning, call.dailyCalories,
                                 morningRatio)
               /\ IsRoundedShare(call.mealDistribution.afternoon, call.dailyCalories,
                                 table[2])
               /\ IsRoundedShare(call.mealDistribution.night, call.dailyCalories,
                                 table[3])
               /\ call.mealDistribution.total = call.dailyCalories

\* C20: 2000 calories were distributed for a very active user in the mode
\* of an update: 500, 700 and 500, total 2000.
C20_MorningCutOnUpdate ==
    /\ resp.op = "calculateOptimalMealDistribution"
    /\ resp.details = "veryActive"
    /\ resp.body[1].isUpdate
    /\ resp.body[1].dailyCalories = 2000
    /\ resp.body[1].mealDistribution
          = [morning |-> 500, afternoon |-> 700, night |-> 500, total |-> 2000]

(***************************************************************************)
(* generateProgressProjection on its own: plans of some durations, read    *)
(* from the day they start to some weeks later.                            *)
(***************************************************************************)
PlanDurations == {1, 2, 3, 4, 8}

PlanStarts == {0, 3}

MaxElapsed == 57

Project(durationWeeks, startDate, elapsed) ==
    /\ LET trackingData == [currentWeight |-> 180, goalWeight |-> 160,
                            durationWeeks |-> durationWeeks, dailyCalories |-> 1513]
       IN  resp' = Response("generateProgressProjection", 0, 200, "", "",
                            <<[trackingData |-> trackingData,
                               startDate |-> startDate,
                               currentDate |-> startDate + elapsed,
                               weeklyProgress |->
                                   generateProgressProjection(trackingData, startDate,
                                                              startDate + elapsed)]>>)
    /\ UNCHANGED <<store, now, pending, users, issued>>

NextProjection ==
    \E durationWeeks \in PlanDurations, startDate \in PlanStarts,
       elapsed \in 0..MaxElapsed :
          Project(durationWeeks, startDate, elapsed)

SpecProjection == Init /\ [][NextProjection]_vars

\* C21: when currentWeek = floor(days since the anchor date / 7) + 1 is at
\* most durationWeeks, generateProgressProjection returns exactly one
\* entry, with week = currentWeek, predictedDate = anchor date +
\* currentWeek * 7 days and calorieAdjustment +50, +25, -25 or -50 as
\* currentWeek / durationWeeks is below a quarter, below a half, below
\* three quarters or not.
C21_ProjectionOfCurrentWeek ==
    resp.op = "generateProgressProjection"
        => LET call == resp.body[1]
               durationWeeks == call.trackingData.durationWeeks
               currentWeek == ((call.currentDate - call.startDate) \div 7) + 1
           IN  currentWeek <= durationWeeks
                  => /\ Len(call.weeklyProgress) = 1
                     /\ call.weeklyProgress[1].week = currentWeek
                     /\ call.weeklyProgress[1].predictedDate
                           = call.startDate + currentWeek * 7
                     /\ call.weeklyProgress[1].calorieAdjustment
                           = IF 4 * currentWeek < durationWeeks THEN 50
                             ELSE IF 2 * currentWeek < durationWeeks THEN 25
                             ELSE IF 4 * currentWeek < 3 * durationWeeks THEN -25
                             ELSE -50

\* C21: the projection of the fifth week of a plan of eight weeks that
\* started on day 3: predicted for day 38, adjustment -25.
C21_FifthWeekOfEight ==
    /\ resp.op = "generateProgressProjection"
    /\ resp.body[1].trackingData.durationWeeks = 8
    /\ resp.body[1].startDate = 3
    /\ Len(resp.body[1].weeklyProgress) = 1
    /\ resp.body[1].weeklyProgress[1].week = 5
    /\ resp.body[1].weeklyProgress[1].predictedDate = 38
    /\ resp.body[1].weeklyProgress[1].calorieAdjustment = -25

(***************************************************************************)
(* detectProgressPatterns on its own: every weeklyProgress of up to        *)
(* MaxWeeks entries with weights of WeekWeights, and a missing one.        *)
(***************************************************************************)
MaxWeeks == 5

WeekWeights == {150, 159, 160}

\* The entries of a weeklyProgress with the given weights.
WeeksOf(weights) ==
    [i \in 1..Len(weights) |->
        [week |-> i, currentWeight |-> weights[i], predictedDate |-> 7 * i,
         dailyCalories |-> 1513, calorieAdjustment |-> 50]]

WeeklyProgresses ==
    UNION {{WeeksOf(weights) : weights \in [1..n -> WeekWeights]} : n \in 0..MaxWeeks}

\* given is false for a call without weeklyProgress, which the function
\* answers as it answers a short one (!weeklyProgress).
Detect(given, weeklyProgress) ==
    /\ resp' = Response("detectProgressPatterns", 0, 200, "", "",
                        <<[given |-> given, weeklyProgress |-> weeklyProgress,
                           progressPatterns |->
                               IF given THEN detectProgressPatterns(weeklyProgress)
                               ELSE InsufficientData]>>)
    /\ UNCHANGED <<store, now, pending, users, issued>>

NextPatterns ==
    \/ \E weeklyProgress \in WeeklyProgresses : Detect(TRUE, weeklyProgress)
    \/ Detect(FALSE, <<>>)

SpecPatterns == Init /\ [][NextPatterns]_vars

\* C22: detectProgressPatterns returns overallTrend 'Insufficient data',
\* patternType 'N/A' and consistencyScore 0 for every weeklyProgress of
\* fewer than 3 entries and for a missing one; for 3 entries or more the
\* consistencyScore and the volatility are integers from 0 to 100.
C22_SentinelOrScoresInRange ==
    resp.op = "detectProgressPatterns"
        => LET call == resp.body[1]
               patterns == call.progressPatterns
           IN  IF ~call.given \/ Len(call.weeklyProgress) < 3
               THEN /\ patterns.overallTrend = "Insufficient data"
                    /\ patterns.patternType = "N/A"
                    /\ patterns.consistencyScore = 0
               ELSE /\ patterns.consistencyScore \in 0..100
                    /\ patterns.volatility \in 0..100
                    /\ patterns.overallTrend # "Insufficient data"

\* C22: the patterns of the weights 160, 150, 160 were returned: the
\* consistencyScore is 0 and the volatility 100, both at their limits.
C22_ScoresAtTheirLimits ==
    /\ resp.op = "detectProgressPatterns"
    /\ resp.body[1].given
    /\ Len(resp.body[1].weeklyProgress) = 3
    /\ resp.body[1].weeklyProgress[1].currentWeight = 160
    /\ resp.body[1].weeklyProgress[2].currentWeight = 150
    /\ resp.body[1].weeklyProgress[3].currentWeight = 160
    /\ resp.body[1].progressPatterns.consistencyScore = 0
    /\ resp.body[1].progressPatterns.volatility = 100

\* The week-over-week changes of a weeklyProgress that are positive
\* (sign 1), negative (sign -1) or zero (sign 0), counted.
ChangesOfSign(weeklyProgress, sign) ==
    Cardinality({i \in 1..(Len(weeklyProgress) - 1) :
        LET change == weeklyProgress[i + 1].currentWeight
                         - weeklyProgress[i].currentWeight
        IN  CASE sign = 1 -> change > 0
              [] sign = -1 -> change < 0
              [] OTHER -> change = 0})

\* C23: for 3 observations or more detectProgressPatterns classifies by
\* the strict plurality of the week-over-week changes: 'Gradual Gain' iff
\* the positive ones exceed both the negative and the neutral ones, 'Steady
\* Decline' iff the negative ones exceed both others, 'Stable' iff the
\* neutral ones exceed both others, 'Inconsistent' in every other case, so
\* with any tie for the largest count.
C23_StrictPluralityClassifies ==
    (/\ resp.op = "detectProgressPatterns"
     /\ resp.body[1].given
     /\ Len(resp.body[1].weeklyProgress) >= 3)
        => LET weeklyProgress == resp.body[1].weeklyProgress
               patternType == resp.body[1].progressPatterns.patternType
               positive == ChangesOfSign(weeklyProgress, 1)
               negative == ChangesOfSign(weeklyProgress, -1)
               neutral == ChangesOfSign(weeklyProgress, 0)
               gain == positive > negative /\ positive > neutral
               decline == negative > positive /\ negative > neutral
               stable == neutral > positive /\ neutral > negative
           IN  /\ patternType = "Gradual Gain" <=> gain
               /\ patternType = "Steady Decline" <=> decline
               /\ patternType = "Stable" <=> stable
               /\ patternType = "Inconsistent" <=> ~(gain \/ decline \/ stable)
               /\ resp.body[1].progressPatterns.overallTrend = patternType

\* C23: the weights 150, 160, 150, 160, 150 were classified: two changes
\* up and two down, a tie, 'Inconsistent'.
C23_TieIsInconsistent ==
    /\ resp.op = "detectProgressPatterns"
    /\ resp.body[1].given
    /\ Len(resp.body[1].weeklyProgress) = 5
    /\ ChangesOfSign(resp.body[1].weeklyProgress, 1) = 2
    /\ ChangesOfSign(resp.body[1].weeklyProgress, -1) = 2
    /\ resp.body[1].progressPatterns.patternType = "Inconsistent"

(***************************************************************************)
(* calculateAdherenceMetrics as getAllTracking uses it.                    *)
(***************************************************************************)
AllTrackingAnswered == resp.op = "getAllTracking" /\ resp.status = 200

\* The weight that the plan of a record started from: the currentWeight of
\* the request that created it, which its other biometrics identify.
PlanStartWeight(tracking) ==
    (CHOOSE body \in InitBodies :
        /\ body.goalWeight = tracking.goalWeight
        /\ body.durationWeeks = tracking.durationWeeks
        /\ body.age = tracking.age
        /\ body.height = tracking.height
        /\ body.activityLevel = tracking.activityLevel).currentWeight

\* |expectedWeight - actualWeight| of a week, times durationWeeks, when the
\* plan started from initialWeight.
OffGlidePath(tracking, initialWeight, week) ==
    Abs(initialWeight * tracking.durationWeeks
        - (initialWeight - tracking.goalWeight) * week.week
        - week.currentWeight * tracking.durationWeeks)

\* C24: calculateAdherenceMetrics scores a week as max(0, 100 - |expected
\* - actual| * 10) with expected = initialWeight - (initialWeight -
\* goalWeight) / durationWeeks * week, initialWeight being the weight the
\* plan started from: 100 on the glide path, 0 when 10 or more off, always
\* from 0 to 100.  The code takes the currentWeight of the record for
\* initialWeight, which is the weight of the last update.
C24_ScoredAgainstPlanStart ==
    AllTrackingAnswered
        => LET tracking == resp.body[1]
               dw == tracking.durationWeeks
           IN  \A i \in 1..Len(tracking.weeklyProgress) :
                  LET off == OffGlidePath(tracking, PlanStartWeight(tracking),
                                          tracking.weeklyProgress[i])
                      score == tracking.adherenceMetrics.weeklyAdherence[i]
                  IN  /\ score.den = dw
                      /\ score.num = Max(0, 100 * dw - 10 * off)
                      /\ score.num >= 0 /\ score.num <= 100 * dw
                      /\ off = 0 => score.num = 100 * dw
                      /\ off >= 10 * dw => score.num = 0

\* C24: getAllTracking answered for the plan from 180 to 160 in 8 weeks
\* after an update to 170, in its first week: the score is 87.5, that of
\* 1.25 off, while 170 is 7.5 off the glide path from 180 (score 25).
C24_ScoredAgainstLastUpdate ==
    /\ AllTrackingAnswered
    /\ resp.body[1].currentWeight = 170
    /\ PlanStartWeight(resp.body[1]) = 180
    /\ Len(resp.body[1].weeklyProgress) = 1
    /\ resp.body[1].weeklyProgress[1].week = 1
    /\ resp.body[1].adherenceMetrics.weeklyAdherence[1] = [num |-> 700, den |-> 8]
    /\ OffGlidePath(resp.body[1], 180, resp.body[1].weeklyProgress[1]) = 60

\* The weeks a..b of the scores are all of 80 or more.
RunOfGoodWeeks(adherenceScores, a, b) ==
    \A i \in a..b : adherenceScores[i].num >= 80 * adherenceScores[i].den

C26_FailedUpdateChangesNothing ==
    [][/\ \A p \in Procs :
            (SaveStep(p) /\ resp'.status # 200)
               => /\ resp'.status = 500
                  /\ resp'.error = "Tracking Update failed"
                  /\ validateTracking(pending[p].tracking[1]) # "ok"
                  /\ store' = store
       /\ (resp'.op = "updateTracking" /\ resp'.status = 500) => store' = store]_vars

\* C26: the save of an update to 90 was refused for its negative calories,
\* and the record still has the weight 70 and its first note only.
C26_RefusedSaveLeftRecord ==
    /\ resp.op = "updateTracking" /\ resp.status = 500
    /\ resp.details = "Calories cannot be negative"
    /\ FindLatest(resp.user) # 0
    /\ store[FindLatest(resp.user)].currentWeight = 70
    /\ Len(store[FindLatest(resp.user)].progressNotes) = 1
    /\ store[FindLatest(resp.user)].recommendations = NoRecommendations

(***************************************************************************)
(* The reads leave the collection alone.                                   *)
(***************************************************************************)
\* A step of one of the three reads.
ReadStep ==
    /\ resp'.op \in {"getTracking", "getAllTracking", "getTrackingHistory"}
    /\ pending' = pending /\ now' = now
    /\ \/ getTracking(resp'.user)
       \/ getAllTracking(resp'.user)
       \/ getTrackingHistory(resp'.user)

\* C27: getTracking, getAllTracking and getTrackingHistory write nothing:
\* each leaves every persisted record as it was, and the values they
\* derive are returned and not stored.
C27_ReadsChangeNothing ==
    [][ReadStep => store' = store]_vars

\* C27: getTracking has returned a projection of one week for a record
\* whose stored weeklyProgress is still empty.
C27_ProjectionReturnedNotStored ==
    /\ resp.op = "getTracking" /\ resp.status = 200
    /\ Len(resp.body[1].weeklyProgress) = 1
    /\ FindLatest(resp.user) # 0
    /\ store[FindLatest(resp.user)].weeklyProgress = <<>>
    /\ store[FindLatest(resp.user)].progressNotes = resp.body[1].progressNotes

(***************************************************************************)
(* The progress percentage of the records that are saved.  The plan from   *)
(* 180 to 160 is created and updated with the weights 160, the goal of the *)
(* plan, and 170.                                                          *)
(***************************************************************************)
GoalBodies == {Body(180, 160, 8, 30, 70, "moderatelyActive")}

GoalWeights == {160, 170}

NextGoal ==
    \/ \E body \in GoalBodies : initializeTracking(1, body)
    \/ \E updatedWeight \in GoalWeights, bodyHeight \in BodyHeights :
           updateTrackingLoad(1, 1, updatedWeight, bodyHeight)
    \/ updateTrackingSave(1)
    \/ getTracking(1)
    \/ Tick

SpecGoal == Init /\ [][NextGoal]_vars

\* A percentage that is a number from 0 to 100.
PercentageInRange(percentage) ==
    /\ percentage.num # NaN
    /\ percentage.num >= 0
    /\ percentage.num <= 100 * percentage.den

\* C28 as stated: every record that is saved has progressPercentage in
\* [0, 100], and the pre-save hook yields a number in that range for every
\* document that initializeTracking or updateTracking saves, an update whose
\* weight equals the goal weight included.  For that update the hook yields
\* NaN.
C28_HookYieldsPercentageInRange ==
    [][/\ (store' # store /\ resp'.op = "initializeTracking" /\ resp'.status = 201)
            => /\ PercentageInRange(calculateProgressPercentage(LastOf(store')))
               /\ PercentageInRange(LastOf(store').progressPercentage)
       /\ \A p \in Procs :
            SaveSucceeds(p)
               => /\ PercentageInRange(
                         calculateProgressPercentage(pending[p].tracking[1]))
                  /\ PercentageInRange(store'[pending[p].id].progressPercentage)]_vars

\* C28: an update with the weight 160 has been saved to the plan whose goal
\* is 160; the percentage of the hook is NaN for the record, and the record
\* keeps the percentage 0 it had.
C28_UpdateAtGoalYieldsNaN ==
    /\ resp.op = "updateTracking" /\ resp.status = 200
    /\ \E i \in 1..Len(store) :
          /\ store[i].currentWeight = 160
          /\ store[i].goalWeight = 160
          /\ Len(store[i].progressNotes) = 2
          /\ calculateProgressPercentage(store[i]).num = NaN
          /\ calculateProgressPercentage(resp.body[1]).num = NaN
          /\ store[i].progressPercentage = DefaultProgressPercentage

(***************************************************************************)
(* The authentication handlers and the User model.  A user document has    *)
(* the paths of the schema that the handlers of the tokens read and write;  *)
(* its _id is its place in the collection.  Date.now() is counted in hours. *)
(* A token of crypto.randomBytes is a number that was never drawn before:   *)
(* the tokens are numbered in the order they are drawn.                     *)
(***************************************************************************)
MaxUsers == 2

MaxIssued == 3

HoursPerDay == 24

DateNow == now * HoursPerDay

Usernames == {"ann", ""}

Emails == {"ann@slim.io", "bob@slim.io", "nomail"}

\* The passwords of register and login, and the new passwords of resetPassword.
Passwords == {"Passw0rd!", "weak"}

NewPasswords == {"Chang3d!!", "weak"}

\* /^[^\s@]+@[^\s@]+\.[^\s@]+$/ on the addresses of Emails.
validateEmail(email) == email \in {"ann@slim.io", "bob@slim.io"}

\* The strength rule on the passwords of Passwords and NewPasswords.
validatePassword(password) == password \in {"Passw0rd!", "Chang3d!!"}

\* The pre-save hook that hashes a modified password, and comparePassword.
bcryptHash(password) == <<"bcrypt", password>>

comparePassword(user, candidatePassword) == user.password = bcryptHash(candidatePassword)

\* The tokens a client can present: no token, a string that was never
\* issued (0), and every token issued so far.
PresentedTokens == {Undefined} \cup (0..issued)

\* User.findOne(filter): the place of the first document that matches, or 0.
FindUser(Matches(_)) ==
    IF \E i \in 1..Len(users) : Matches(users[i])
    THEN CHOOSE i \in 1..Len(users) :
            /\ Matches(users[i])
            /\ \A j \in 1..(i - 1) : ~Matches(users[j])
    ELSE 0

FindByEmail(email) == LET Matches(user) == user.email = email IN FindUser(Matches)

\* findOne({ refreshToken }): a filter value of undefined is sent as null
\* and matches the documents that have no refreshToken.
FindByRefreshToken(refreshToken) ==
    LET Matches(user) == user.refreshToken = refreshToken IN FindUser(Matches)

\* findOne({ resetPasswordToken: token, resetPasswordExpiry: { $gt: Date.now() } }).
FindByResetToken(token) ==
    LET Matches(user) ==
            /\ user.resetPasswordToken = token
            /\ user.resetPasswordExpiry # Undefined
            /\ user.resetPasswordExpiry > DateNow
    IN  FindUser(Matches)

\* isRefreshTokenValid without the expiry.
isRefreshTokenValidForever(user) ==
    /\ user.refreshToken # Undefined
    /\ user.refreshTokenExpiry # Undefined

isRefreshTokenValid(user) ==
    /\ user.refreshToken # Undefined
    /\ user.refreshTokenExpiry # Undefined
    /\ DateNow < user.refreshTokenExpiry

\* generateRefreshToken: the document with the token drawn and its expiry.
generateRefreshToken(user) ==
    [user EXCEPT !.refreshToken = issued + 1,
                 !.refreshTokenExpiry = DateNow + 7 * 24]

invalidateRefreshToken(user) ==
    [user EXCEPT !.refreshToken = Undefined, !.refreshTokenExpiry = Undefined]

\* generateToken: the claims of the access token, valid for 15 minutes.
generateToken(user) == [email |-> user.email, username |-> user.username]

NewUser(username, email, password) ==
    [username |-> username,
     email |-> email,
     password |-> bcryptHash(password),
     refreshToken |-> Undefined,
     refreshTokenExpiry |-> Undefined,
     resetPasswordToken |-> Undefined,
     resetPasswordExpiry |-> Undefined]

\* register, for a request without referredBy.
register(username, email, password) ==
    /\ IF username = "" \/ email = "" \/ password = ""
       THEN /\ resp' = Response("register", 0, 400,
                                "Username, email, and password are required", "", <<>>)
            /\ UNCHANGED <<users, issued>>
       ELSE IF ~validateEmail(email)
       THEN /\ resp' = Response("register", 0, 400, "Invalid email format", "", <<>>)
            /\ UNCHANGED <<users, issued>>
       ELSE IF ~validatePassword(password)
       THEN /\ resp' = Response("register", 0, 400, "Password too weak", "", <<>>)
            /\ UNCHANGED <<users, issued>>
       ELSE IF FindByEmail(email) # 0
       THEN /\ resp' = Response("register", 0, 409,
                                "User with this email already exists", "", <<>>)
            /\ UNCHANGED <<users, issued>>
       ELSE /\ Len(users) < MaxUsers
            /\ issued < MaxIssued
            /\ LET newUser == generateRefreshToken(NewUser(username, email, password))
               IN  /\ users' = Append(users, newUser)
                   /\ issued' = issued + 1
                   /\ resp' = Response("register", Len(users) + 1, 201, "", "",
                                       <<[refreshToken |-> newUser.refreshToken,
                                          accessToken |-> generateToken(newUser)]>>)
    /\ UNCHANGED <<store, now, pending>>

login(email, password) ==
    /\ LET id == FindByEmail(email)
       IN  IF id = 0
           THEN /\ resp' = Response("login", 0, 400, "Invalid credentials", "", <<>>)
                /\ UNCHANGED <<users, issued>>
           ELSE IF ~comparePassword(users[id], password)
           THEN /\ resp' = Response("login", id, 400, "password does not match", "", <<>>)
                /\ UNCHANGED <<users, issued>>
           ELSE /\ issued < MaxIssued
                /\ users' = [users EXCEPT ![id] = generateRefreshToken(@)]
                /\ issued' = issued + 1
                /\ resp' = Response("login", id, 200, "", "",
                                    <<[refreshToken |-> issued + 1,
                                       accessToken |-> generateToken(users[id])]>>)
    /\ UNCHANGED <<store, now, pending>>

\* logout behind protect, for the bearer of an access token of the address.
logout(email) ==
    /\ LET id == FindByEmail(email)
       IN  IF id = 0
           THEN /\ resp' = Response("logout", 0, 401, "User no longer exists", "", <<>>)
                /\ UNCHANGED users
           ELSE /\ users' = [users EXCEPT ![id] = invalidateRefreshToken(@)]
                /\ resp' = Response("logout", id, 200, "", "", <<>>)
    /\ UNCHANGED <<store, now, pending, issued>>

(***************************************************************************)
(* refreshToken.  The handler reads the user, checks the token and waits   *)
(* on save(); save() writes the two paths that were set to the document    *)
(* of the _id.  Other requests are served between the read and the save.   *)
(***************************************************************************)
refreshTokenFind(p, refreshToken) ==
    /\ pending[p].pc = "idle"
    /\ LET id == FindByRefreshToken(refreshToken)
       IN  IF id = 0 \/ ~isRefreshTokenValid(users[id])
           THEN /\ resp' = Response("refreshToken", 0, 401,
                                    "Invalid or expired refresh token", "", <<>>)
                /\ UNCHANGED pending
           ELSE /\ pending' = [pending EXCEPT
                                 ![p] = [pc |-> "refreshToken", id |-> id,
                                         token |-> refreshToken]]
                /\ UNCHANGED resp
    /\ UNCHANGED <<store, now, users, issued>>

refreshTokenSave(p) ==
    /\ pending[p].pc = "refreshToken"
    /\ issued < MaxIssued
    /\ LET id == pending[p].id
       IN  /\ users' = [users EXCEPT
                           ![id].refreshToken = issued + 1,
                           ![id].refreshTokenExpiry = DateNow + 7 * 24]
           /\ issued' = issued + 1
           /\ resp' = Response("refreshToken", id, 200, "", "",
                               <<[refreshToken |-> issued + 1,
                                  accessToken |-> generateToken(users[id])]>>)
    /\ pending' = [pending EXCEPT ![p] = Idle]
    /\ UNCHANGED <<store, now>>

(***************************************************************************)
(* resetPasswordRequest and resetPassword.  The token is sent by mail; the *)
(* answer does not carry it.                                               *)
(***************************************************************************)
resetPasswordRequest(email) ==
    /\ LET id == FindByEmail(email)
       IN  IF ~validateEmail(email)
           THEN /\ resp' = Response("resetPasswordRequest", 0, 400,
                                    "Invalid email format", "", <<>>)
                /\ UNCHANGED <<users, issued>>
           ELSE IF id = 0
           THEN /\ resp' = Response("resetPasswordRequest", 0, 404,
                                    "No account associated with this email", "", <<>>)
                /\ UNCHANGED <<users, issued>>
           ELSE /\ issued < MaxIssued
                /\ users' = [users EXCEPT
                                ![id].resetPasswordToken = issued + 1,
                                ![id].resetPasswordExpiry = DateNow + 1]
                /\ issued' = issued + 1
                /\ resp' = Response("resetPasswordRequest", id, 200, "", "", <<>>)
    /\ UNCHANGED <<store, now, pending>>

\* A lookup of the reset token that does not look at the expiry.
resetPasswordFindForever(p, token, newPassword) ==
    /\ pending[p].pc = "idle"
    /\ LET Matches(user) == user.resetPasswordToken = token
           id == FindUser(Matches)
       IN  IF ~validatePassword(newPassword)
           THEN /\ resp' = Response("resetPassword", 0, 400,
                                    "New password does not meet strength requirements",
                                    "", <<>>)
                /\ UNCHANGED pending
           ELSE IF id = 0
           THEN /\ resp' = Response("resetPassword", 0, 400,
                                    "Invalid or expired reset token", "", <<>>)
                /\ UNCHANGED pending
           ELSE /\ pending' = [pending EXCEPT
                                 ![p] = [pc |-> "resetPassword", id |-> id,
                                         token |-> token, newPassword |-> newPassword]]
                /\ UNCHANGED resp
    /\ UNCHANGED <<store, now, users, issued>>

resetPasswordFind(p, token, newPassword) ==
    /\ pending[p].pc = "idle"
    /\ LET id == FindByResetToken(token)
       IN  IF ~validatePassword(newPassword)
           THEN /\ resp' = Response("resetPassword", 0, 400,
                                    "New password does not meet strength requirements",
                                    "", <<>>)
                /\ UNCHANGED pending
           ELSE IF id = 0
           THEN /\ resp' = Response("resetPassword", 0, 400,
                                    "Invalid or expired reset token", "", <<>>)
                /\ UNCHANGED pending
           ELSE /\ pending' = [pending EXCEPT
                                 ![p] = [pc |-> "resetPassword", id |-> id,
                                         token |-> token, newPassword |-> newPassword]]
                /\ UNCHANGED resp
    /\ UNCHANGED <<store, now, users, issued>>

resetPasswordSave(p) ==
    /\ pending[p].pc = "resetPassword"
    /\ LET id == pending[p].id
       IN  /\ users' = [users EXCEPT
                           ![id].password = bcryptHash(pending[p].newPassword),
                           ![id].resetPasswordToken = Undefined,
                           ![id].resetPasswordExpiry = Undefined]
           /\ resp' = Response("resetPassword", id, 200, "", "", <<>>)
    /\ pending' = [pending EXCEPT ![p] = Idle]
    /\ UNCHANGED <<store, now, issued>>

\* The requests of the authentication API.
NextAuth ==
    \/ \E username \in Usernames, email \in Emails, password \in Passwords :
           register(username, email, password)
    \/ \E email \in Emails, password \in Passwords : login(email, password)
    \/ \E email \in Emails : logout(email)
    \/ \E p \in Procs, refreshToken \in PresentedTokens : refreshTokenFind(p, refreshToken)
    \/ \E p \in Procs : refreshTokenSave(p)
    \/ \E email \in Emails : resetPasswordRequest(email)
    \/ \E p \in Procs, token \in PresentedTokens, newPassword \in NewPasswords :
           resetPasswordFind(p, token, newPassword)
    \/ \E p \in Procs : resetPasswordSave(p)
    \/ Tick

SpecAuth == Init /\ [][NextAuth]_vars

(***************************************************************************)
(* The refresh tokens.                                                     *)
(***************************************************************************)
\* The refresh tokens that the documents of a collection hold.
StoredRefreshTokens(collection) ==
    {collection[i].refreshToken : i \in 1..Len(collection)} \ {Undefined}

\* The token is the stored, unexpired refresh token of a user.
StoredAndUnexpired(refreshToken) ==
    /\ refreshToken # Undefined
    /\ \E i \in 1..Len(users) :
          /\ users[i].refreshToken = refreshToken
          /\ DateNow < users[i].refreshTokenExpiry

\* C29: refreshToken accepts a token only while it is the stored, unexpired
\* refresh token of a user, and answers 401 otherwise; when a refreshToken
\* call has succeeded, no user holds the token it was given; no step gives
\* a user a token that was issued before the step unless the user held it
\* already, so that a token once replaced or removed is rejected by every
\* later call; and logout leaves its user without a token, so that every
\* token issued to the user so far is rejected from then on, and only a
\* token drawn later is accepted again.
C29_RefreshTokenRotation ==
    [][/\ \A p \in Procs, refreshToken \in PresentedTokens :
            (pending[p].pc = "idle" /\ refreshTokenFind(p, refreshToken))
               => IF pending'[p].pc = "refreshToken"
                  THEN StoredAndUnexpired(refreshToken)
                  ELSE /\ ~StoredAndUnexpired(refreshToken)
                       /\ resp'.op = "refreshToken" /\ resp'.status = 401
       /\ \A p \in Procs :
            (pending[p].pc = "refreshToken" /\ refreshTokenSave(p))
               => /\ resp'.status = 200
                  /\ pending[p].token \notin StoredRefreshTokens(users')
                  /\ resp'.body[1].refreshToken \in StoredRefreshTokens(users')
       /\ issued' >= issued
       /\ StoredRefreshTokens(users') \subseteq
             StoredRefreshTokens(users) \cup ((issued + 1)..issued')
       /\ \A email \in Emails :
            (resp'.op = "logout" /\ resp'.status = 200 /\ logout(email))
               => /\ users'[FindByEmail(email)].refreshToken = Undefined
                  /\ StoredRefreshTokens(users') \subseteq StoredRefreshTokens(users)]_vars

\* C29: the token 1 of the registration was given to refreshToken, which
\* answered with the token 2; the user holds the token 2 and the token 1
\* is the token of no user.
C29_FirstTokenReplaced ==
    /\ resp.op = "refreshToken" /\ resp.status = 200
    /\ resp.body[1].refreshToken = 2
    /\ users[1].refreshToken = 2
    /\ issued = 2
    /\ FindByRefreshToken(1) = 0
    /\ ~StoredAndUnexpired(1)

(***************************************************************************)
(* The password reset tokens.                                              *)
(***************************************************************************)
\* The reset tokens that the documents of a collection hold.
StoredResetTokens(collection) ==
    {collection[i].resetPasswordToken : i \in 1..Len(collection)} \ {Undefined}

\* The token is the stored reset token of a user and its hour has not passed.
ResetTokenInForce(token) ==
    /\ token # Undefined
    /\ \E i \in 1..Len(users) :
          /\ users[i].resetPasswordToken = token
          /\ users[i].resetPasswordExpiry > DateNow

\* C30: resetPassword goes on to change the password only with the reset
\* token that a user holds and before the expiry of the token, and answers
\* 400 otherwise; the token a user holds is the one that the last
\* resetPasswordRequest for the user drew, with an expiry one hour after the
\* request, or none; when a resetPassword call has succeeded, no user holds
\* the token it was given, and no step gives a user a token that was issued
\* before the step, so that every later call with the token is answered 400.
C30_ResetTokenSingleUse ==
    [][/\ \A p \in Procs, token \in PresentedTokens, newPassword \in NewPasswords :
            (pending[p].pc = "idle" /\ resetPasswordFind(p, token, newPassword))
               => IF pending'[p].pc = "resetPassword"
                  THEN ResetTokenInForce(token) /\ validatePassword(newPassword)
                  ELSE /\ ~ResetTokenInForce(token) \/ ~validatePassword(newPassword)
                       /\ resp'.op = "resetPassword" /\ resp'.status = 400
       /\ \A p \in Procs :
            (pending[p].pc = "resetPassword" /\ resetPasswordSave(p))
               => /\ resp'.status = 200
                  /\ pending[p].token \notin StoredResetTokens(users')
                  /\ users'[pending[p].id].password = bcryptHash(pending[p].newPassword)
       /\ \A i \in 1..Len(users) :
            \/ /\ users'[i].resetPasswordToken = users[i].resetPasswordToken
               /\ users'[i].resetPasswordExpiry = users[i].resetPasswordExpiry
            \/ /\ users'[i].resetPasswordToken = Undefined
               /\ users'[i].resetPasswordExpiry = Undefined
            \/ /\ resp'.op = "resetPasswordRequest" /\ resp'.status = 200
               /\ issued' = issued + 1
               /\ users'[i].resetPasswordToken = issued'
               /\ users'[i].resetPasswordExpiry = DateNow + 1
       /\ \A i \in (Len(users) + 1)..Len(users') :
            users'[i].resetPasswordToken = Undefined]_vars

\* C30: the reset token 2 of the first user has been used: resetPassword
\* answered 200, the password is the new one, and the token 2 is the token
\* of no user.
C30_ResetTokenUsed ==
    /\ resp.op = "resetPassword" /\ resp.status = 200
    /\ issued = 2
    /\ users[1].password = bcryptHash("Chang3d!!")
    /\ users[1].resetPasswordToken = Undefined
    /\ FindByResetToken(2) = 0
    /\ ~ResetTokenInForce(2)

====
